---------------------------- MODULE Spec2Model ----------------------------
(***************************************************************************)
(* A model of the DMKernel language core: the lexer and the recursive      *)
(* descent parser of src/src/lang (lexer.c, parser.c), the scopes of       *)
(* src/unnamed/part_006 (context.c) and the tree-walking evaluator of      *)
(* src/unnamed/part_008 (exec.c).                                          *)
(*                                                                         *)
(* Source text is a TLA+ string; the byte at C offset i is                 *)
(* SubSeq(source, i+1, i+1).  Doubles are modelled as exact rationals      *)
(* [n, d] in lowest terms with d > 0.  Allocation failure (dm_malloc       *)
(* returning NULL) is not modelled.                                        *)
(***************************************************************************)
EXTENDS Integers, Sequences, FiniteSets, TLC

VARIABLES
    mode,       \* "lexing"; "typing" | "parsed" when parsing; "idle" | "running" | "crashed" when executing
    typed,      \* the tokens of the input line typed so far
    parsed,     \* what dm_parser_parse returned for them: [err, result, parser]
    session,    \* the inputs this run of the interpreter is given, in order
    run,        \* index of the input being executed; its AST is allocation `run`
    ctx,        \* dm_context_t: the scopes, current_scope, global_scope
    stack,      \* the C call stack of the evaluator: one frame per eval_* call
    ret,        \* the (err, *result) pair the last finished eval_* call returned
    freed,      \* the ASTs dm_node_free has released
    output,     \* the lines written to ctx->output
    results,    \* what each dm_execute_source call so far returned: [err, result]
    proc,       \* the process around the evaluator: argv, stdin, the C calls of main.c and shell.c in progress
    lexed       \* the lexer at work on a text and the tokens it has returned

vars == <<mode, typed, parsed, session, run, ctx, stack, ret, freed, output, results,
          proc, lexed>>

(***************************************************************************)
(* Error codes (dmkernel.h) and enumerations (parser.h).                   *)
(***************************************************************************)
DM_SUCCESS == "DM_SUCCESS"
DM_ERROR_INVALID_ARGUMENT == "DM_ERROR_INVALID_ARGUMENT"
DM_ERROR_SYNTAX_ERROR == "DM_ERROR_SYNTAX_ERROR"
DM_ERROR_TYPE_MISMATCH == "DM_ERROR_TYPE_MISMATCH"
DM_ERROR_UNDEFINED_VARIABLE == "DM_ERROR_UNDEFINED_VARIABLE"
DM_ERROR_DIVISION_BY_ZERO == "DM_ERROR_DIVISION_BY_ZERO"
DM_ERROR_FILE_IO == "DM_ERROR_FILE_IO"

DM_TOKEN_EOF == "DM_TOKEN_EOF"
DM_TOKEN_IDENTIFIER == "DM_TOKEN_IDENTIFIER"
DM_TOKEN_KEYWORD == "DM_TOKEN_KEYWORD"
DM_TOKEN_NUMBER == "DM_TOKEN_NUMBER"
DM_TOKEN_STRING == "DM_TOKEN_STRING"
DM_TOKEN_OPERATOR == "DM_TOKEN_OPERATOR"
DM_TOKEN_SYMBOL == "DM_TOKEN_SYMBOL"

DM_NODE_PROGRAM == "DM_NODE_PROGRAM"
DM_NODE_LITERAL == "DM_NODE_LITERAL"
DM_NODE_BINARY_OP == "DM_NODE_BINARY_OP"
DM_NODE_UNARY_OP == "DM_NODE_UNARY_OP"
DM_NODE_VARIABLE == "DM_NODE_VARIABLE"
DM_NODE_ASSIGNMENT == "DM_NODE_ASSIGNMENT"
DM_NODE_BLOCK == "DM_NODE_BLOCK"
DM_NODE_IF == "DM_NODE_IF"
DM_NODE_WHILE == "DM_NODE_WHILE"
DM_NODE_CALL == "DM_NODE_CALL"
DM_NODE_FUNCTION == "DM_NODE_FUNCTION"
DM_NODE_RETURN == "DM_NODE_RETURN"

DM_LITERAL_NUMBER == "DM_LITERAL_NUMBER"
DM_LITERAL_STRING == "DM_LITERAL_STRING"
DM_LITERAL_BOOLEAN == "DM_LITERAL_BOOLEAN"
DM_LITERAL_NULL == "DM_LITERAL_NULL"

DM_OP_ADD == "DM_OP_ADD"
DM_OP_SUB == "DM_OP_SUB"
DM_OP_MUL == "DM_OP_MUL"
DM_OP_DIV == "DM_OP_DIV"
DM_OP_MOD == "DM_OP_MOD"
DM_OP_EQ == "DM_OP_EQ"
DM_OP_NEQ == "DM_OP_NEQ"
DM_OP_LT == "DM_OP_LT"
DM_OP_GT == "DM_OP_GT"
DM_OP_LTE == "DM_OP_LTE"
DM_OP_GTE == "DM_OP_GTE"
DM_OP_AND == "DM_OP_AND"
DM_OP_OR == "DM_OP_OR"
DM_OP_NEG == "DM_OP_NEG"
DM_OP_NOT == "DM_OP_NOT"
DM_OP_INVALID == "(dm_operator_t)-1"

(***************************************************************************)
(* Doubles as exact rationals.                                             *)
(***************************************************************************)
Abs(i) == IF i < 0 THEN -i ELSE i

RECURSIVE Gcd(_, _)
Gcd(a, b) == IF b = 0 THEN a ELSE Gcd(b, a % b)

Rat(n, d) ==
    LET g == Gcd(Abs(n), Abs(d))
        s == IF d < 0 THEN -1 ELSE 1
    IN  [n |-> (s * n) \div g, d |-> (s * d) \div g]

Int2Rat(i) == [n |-> i, d |-> 1]
RatAdd(a, b) == Rat(a.n * b.d + b.n * a.d, a.d * b.d)
RatSub(a, b) == Rat(a.n * b.d - b.n * a.d, a.d * b.d)
RatMul(a, b) == Rat(a.n * b.n, a.d * b.d)
RatDiv(a, b) == Rat(a.n * b.d, a.d * b.n)
RatNeg(a) == [n |-> -a.n, d |-> a.d]
RatLt(a, b) == a.n * b.d < b.n * a.d
RatIsZero(a) == a.n = 0
\* C's fmod: a - b * trunc(a / b), the result has the sign of a
RatTrunc(a) == IF a.n >= 0 THEN a.n \div a.d ELSE -((-a.n) \div a.d)
RatFmod(a, b) == RatSub(a, RatMul(b, Int2Rat(RatTrunc(RatDiv(a, b)))))

RECURSIVE Pow10(_)
Pow10(k) == IF k = 0 THEN 1 ELSE 10 * Pow10(k - 1)

(***************************************************************************)
(* <ctype.h> in the "C" locale.                                            *)
(***************************************************************************)
Digits == <<"0", "1", "2", "3", "4", "5", "6", "7", "8", "9">>
DigitSet == {Digits[i] : i \in 1..10}
Letters == {"a", "b", "c", "d", "e", "f", "g", "h", "i", "j", "k", "l", "m",
            "n", "o", "p", "q", "r", "s", "t", "u", "v", "w", "x", "y", "z",
            "A", "B", "C", "D", "E", "F", "G", "H", "I", "J", "K", "L", "M",
            "N", "O", "P", "Q", "R", "S", "T", "U", "V", "W", "X", "Y", "Z"}
isspace(c) == c \in {" ", "\t", "\n", "\r", "\f"}
isdigit(c) == c \in DigitSet
isalpha(c) == c \in Letters
isalnum(c) == isalpha(c) \/ isdigit(c)
DigitVal(c) == (CHOOSE i \in 1..10 : Digits[i] = c) - 1

\* source[i] for a C offset i (0-based); "" stands for the terminating NUL
CharAt(src, i) == IF i >= 0 /\ i < Len(src) THEN SubSeq(src, i + 1, i + 1) ELSE ""
\* the n bytes of src from offset i
Text(src, i, n) == SubSeq(src, i + 1, i + n)
\* the C string that starts at offset i (up to the terminating NUL)
CStr(src, i) == SubSeq(src, i + 1, Len(src))

(***************************************************************************)
(* Lexer (src/src/lang/lexer.c, the translation unit of lines 313-622).    *)
(***************************************************************************)
KEYWORDS == {"break", "case", "class", "const", "continue", "default",
             "else", "export", "extends", "false", "for", "function",
             "if", "import", "let", "null", "return", "static", "super",
             "switch", "this", "true", "var", "while"}

\* a token whose text pointer is NULL
NoText == -1

dm_lexer_init(src, source_len) ==
    [source |-> src, source_len |-> source_len, position |-> 0,
     line |-> 1, column |-> 1]

\* consume one byte: position++, and line/column as the caller's loop does
Advance(lx, n) == [lx EXCEPT !.position = @ + n, !.column = @ + n]
AdvanceNL(lx) ==
    IF CharAt(lx.source, lx.position) = "\n"
    THEN [lx EXCEPT !.position = @ + 1, !.line = @ + 1, !.column = 1]
    ELSE Advance(lx, 1)
Cur(lx) == CharAt(lx.source, lx.position)
Peek(lx) == CharAt(lx.source, lx.position + 1)

RECURSIVE SkipSpaces(_)
SkipSpaces(lx) ==
    IF lx.position < lx.source_len /\ (isspace(Cur(lx)) \/ Cur(lx) = "\r")
    THEN SkipSpaces(AdvanceNL(lx))
    ELSE lx

RECURSIVE SkipToEol(_)
SkipToEol(lx) ==
    IF lx.position < lx.source_len /\ Cur(lx) # "\n"
    THEN SkipToEol(Advance(lx, 1))
    ELSE lx

RECURSIVE SkipToCommentEnd(_)
SkipToCommentEnd(lx) ==
    IF lx.position + 1 < lx.source_len /\ ~(Cur(lx) = "*" /\ Peek(lx) = "/")
    THEN SkipToCommentEnd(AdvanceNL(lx))
    ELSE lx

RECURSIVE skip_whitespace_and_comments(_)
skip_whitespace_and_comments(lx) ==
    LET LineComment(a) ==
            a.position + 1 < a.source_len /\ Cur(a) = "/" /\ Peek(a) = "/"
        BlockComment(b) ==
            b.position + 1 < b.source_len /\ Cur(b) = "/" /\ Peek(b) = "*"
        \* a: after the whitespace, b: after a line comment, c: after a block
        \* comment's body; the closing */ is consumed when it was found
        Again(a, b, c) ==
            IF BlockComment(b) /\ c.position + 1 < c.source_len
            THEN skip_whitespace_and_comments(Advance(c, 2))
            ELSE IF a.position # lx.position \/ LineComment(a)
            THEN skip_whitespace_and_comments(c)
            ELSE c
        AfterLine(a, b) ==
            Again(a, b, IF BlockComment(b) THEN SkipToCommentEnd(Advance(b, 2)) ELSE b)
        AfterSpaces(a) ==
            AfterLine(a, IF LineComment(a) THEN SkipToEol(Advance(a, 2)) ELSE a)
    IN  AfterSpaces(SkipSpaces(lx))

RECURSIVE ScanIdentifier(_)
ScanIdentifier(lx) ==
    IF lx.position < lx.source_len /\ (isalnum(Cur(lx)) \/ Cur(lx) = "_")
    THEN ScanIdentifier(Advance(lx, 1))
    ELSE lx

RECURSIVE ScanNumber(_, _)
ScanNumber(lx, has_decimal) ==
    IF lx.position < lx.source_len /\ (isdigit(Cur(lx)) \/ Cur(lx) = ".")
    THEN IF Cur(lx) = "." /\ has_decimal
         THEN lx
         ELSE ScanNumber(Advance(lx, 1), has_decimal \/ Cur(lx) = ".")
    ELSE lx

RECURSIVE ScanString(_, _)
\* a scan for the closing quote that knows no escape sequences
RECURSIVE ScanString_without_escapes(_, _)
ScanString_without_escapes(lx, quote) ==
    IF lx.position < lx.source_len /\ Cur(lx) # quote
    THEN ScanString_without_escapes(Advance(lx, 1), quote)
    ELSE lx

ScanString(lx, quote) ==
    IF lx.position < lx.source_len /\ Cur(lx) # quote
    THEN IF Cur(lx) = "\\" /\ lx.position + 1 < lx.source_len
         THEN ScanString(Advance(lx, 2), quote)
         ELSE ScanString(Advance(lx, 1), quote)
    ELSE lx

IsTwoCharOperator(c, next) ==
    \/ c = "=" /\ next = "="
    \/ c = "!" /\ next = "="
    \/ c = "<" /\ next = "="
    \/ c = ">" /\ next = "="
    \/ c = "&" /\ next = "&"
    \/ c = "|" /\ next = "|"

OperatorChars == {"+", "-", "*", "/", "%", "=", "<", ">", "!", "&", "|", "^", "~"}
SymbolChars == {"(", ")", "[", "]", "{", "}", ";", ",", "."}

Token(type, start, length, line, column) ==
    [type |-> type, text |-> start, length |-> length, line |-> line, column |-> column]

\* dm_lexer_next_token(lexer, token): the error code, *token and *lexer afterwards.
\* On an error only token->line and token->column have been written.
dm_lexer_next_token(lexer, token) ==
    LET Scan(lx, c, start) ==
            LET Ok(type, after) ==
                    [err |-> DM_SUCCESS,
                     token |-> Token(type, start, after.position - start,
                                     lx.line, lx.column),
                     lexer |-> after]
                Err(after) ==
                    [err |-> DM_ERROR_SYNTAX_ERROR,
                     token |-> [token EXCEPT !.line = lx.line, !.column = lx.column],
                     lexer |-> after]
                Identifier(after) ==
                    Ok(IF Text(lx.source, start, after.position - start) \in KEYWORDS
                       THEN DM_TOKEN_KEYWORD ELSE DM_TOKEN_IDENTIFIER, after)
                String(after) ==
                    IF after.position >= after.source_len
                    THEN Err(after)
                    ELSE Ok(DM_TOKEN_STRING, Advance(after, 1))
            IN  IF lx.position >= lx.source_len
                THEN [err |-> DM_SUCCESS,
                      token |-> Token(DM_TOKEN_EOF, NoText, 0, lx.line, lx.column),
                      lexer |-> lx]
                ELSE IF isalpha(c) \/ c = "_"
                THEN Identifier(ScanIdentifier(lx))
                ELSE IF isdigit(c)
                THEN Ok(DM_TOKEN_NUMBER, ScanNumber(lx, FALSE))
                ELSE IF c = "\"" \/ c = "'"
                THEN String(ScanString(Advance(lx, 1), c))
                ELSE IF c \in OperatorChars
                THEN Ok(DM_TOKEN_OPERATOR,
                        Advance(lx, IF lx.position + 1 < lx.source_len
                                       /\ IsTwoCharOperator(c, Peek(lx))
                                    THEN 2 ELSE 1))
                ELSE IF c \in SymbolChars
                THEN Ok(DM_TOKEN_SYMBOL, Advance(lx, 1))
                ELSE Err(lx)
        Skipped(lx) == Scan(lx, Cur(lx), lx.position)
    IN  Skipped(skip_whitespace_and_comments(lexer))

(***************************************************************************)
(* AST nodes (parser.h: dm_node_t).  NULL is the null node pointer.        *)
(***************************************************************************)
NULL == [type |-> "NULL"]

NumberLiteral(v) ==
    [type |-> DM_NODE_LITERAL, literal_type |-> DM_LITERAL_NUMBER, value |-> v]
StringLiteral(s) ==
    [type |-> DM_NODE_LITERAL, literal_type |-> DM_LITERAL_STRING, value |-> s]
BooleanLiteral(b) ==
    [type |-> DM_NODE_LITERAL, literal_type |-> DM_LITERAL_BOOLEAN, value |-> b]
NullLiteral ==
    [type |-> DM_NODE_LITERAL, literal_type |-> DM_LITERAL_NULL, value |-> FALSE]
Variable(name) == [type |-> DM_NODE_VARIABLE, name |-> name]
Assignment(name, value, is_declaration) ==
    [type |-> DM_NODE_ASSIGNMENT, name |-> name, value |-> value,
     is_declaration |-> is_declaration]
Binary(op, left, right) ==
    [type |-> DM_NODE_BINARY_OP, op |-> op, left |-> left, right |-> right]
Unary(op, operand) == [type |-> DM_NODE_UNARY_OP, op |-> op, operand |-> operand]
Block(statements) == [type |-> DM_NODE_BLOCK, statements |-> statements]
Program(statements) == [type |-> DM_NODE_PROGRAM, statements |-> statements]
If(condition, then_branch, else_branch) ==
    [type |-> DM_NODE_IF, condition |-> condition, then_branch |-> then_branch,
     else_branch |-> else_branch]
While(condition, body) ==
    [type |-> DM_NODE_WHILE, condition |-> condition, body |-> body]
Call(name, args) == [type |-> DM_NODE_CALL, name |-> name, args |-> args]
Function(name, params, body) ==
    [type |-> DM_NODE_FUNCTION, name |-> name, params |-> params, body |-> body]
Return(value) == [type |-> DM_NODE_RETURN, value |-> value]

(***************************************************************************)
(* atof(text): the longest prefix of the C string that strtod accepts      *)
(* (decimal digits, an optional fraction, an optional exponent).  The      *)
(* parser only calls it on the first byte of a number token, a digit.      *)
(***************************************************************************)
RECURSIVE DigitsEnd(_, _)
DigitsEnd(src, i) == IF isdigit(CharAt(src, i)) THEN DigitsEnd(src, i + 1) ELSE i

RECURSIVE DigitsValue(_, _, _)
DigitsValue(src, i, j) ==
    IF i >= j THEN 0
    ELSE 10 * DigitsValue(src, i, j - 1) + DigitVal(CharAt(src, j - 1))

atof(src, text) ==
    LET Value(int_end, frac_end) ==
            LET frac_len == IF frac_end > int_end THEN frac_end - int_end - 1 ELSE 0
                mantissa ==
                    RatAdd(Int2Rat(DigitsValue(src, text, int_end)),
                           Rat(DigitsValue(src, int_end + 1, frac_end), Pow10(frac_len)))
                has_e == CharAt(src, frac_end) \in {"e", "E"}
                exp_start ==
                    IF CharAt(src, frac_end + 1) \in {"+", "-"}
                    THEN frac_end + 2 ELSE frac_end + 1
                Scaled(exp_end) ==
                    IF has_e /\ exp_end > exp_start
                    THEN IF CharAt(src, frac_end + 1) = "-"
                         THEN RatDiv(mantissa,
                                     Int2Rat(Pow10(DigitsValue(src, exp_start, exp_end))))
                         ELSE RatMul(mantissa,
                                     Int2Rat(Pow10(DigitsValue(src, exp_start, exp_end))))
                    ELSE mantissa
            IN  Scaled(DigitsEnd(src, exp_start))
        Fraction(int_end) ==
            Value(int_end, IF CharAt(src, int_end) = "."
                           THEN DigitsEnd(src, int_end + 1) ELSE int_end)
    IN  Fraction(DigitsEnd(src, text))

(***************************************************************************)
(* Parser (src/src/lang/parser.c).  A parse function returns the node it   *)
(* built (NULL on failure) together with the parser afterwards.            *)
(***************************************************************************)
UninitToken == Token("uninitialized", NoText, 0, 0, 0)

\* history of the parser's heap: blocks are numbered as dm_malloc hands them
\* out; live are those not freed yet, twice those freed when not live; built
\* are the blocks of the tree the last parse function returned, which are
\* the ones dm_node_free of that tree frees
dm_parser_init(src, source_len) ==
    [lexer |-> dm_lexer_init(src, source_len), current |-> UninitToken,
     error_message |-> "",
     heap |-> [next |-> 1, live |-> {}, twice |-> {}], built |-> {}]

\* dm_malloc (create_node, strdup): the block New(parser) is allocated
New(parser) == parser.heap.next

Malloc(parser) ==
    [parser EXCEPT !.heap.live = @ \cup {parser.heap.next}, !.heap.next = @ + 1]

\* a dm_free that releases nothing
dm_free_nothing(parser, blocks) == parser

\* dm_free of each of the blocks (dm_node_free of the trees they make up)
dm_free(parser, blocks) ==
    [parser EXCEPT !.heap.live = @ \ blocks,
                   !.heap.twice = @ \cup (blocks \ parser.heap.live)]

report_error(parser, message) == [parser EXCEPT !.error_message = message]

TokenText(parser) ==
    Text(parser.lexer.source, parser.current.text, parser.current.length)

match(parser, type) == parser.current.type = type

match_keyword(parser, keyword) ==
    parser.current.type = DM_TOKEN_KEYWORD /\ TokenText(parser) = keyword

match_symbol(parser, symbol) ==
    /\ parser.current.type = DM_TOKEN_SYMBOL
    /\ parser.current.length = 1
    /\ CharAt(parser.lexer.source, parser.current.text) = symbol

\* parser->current.type == OPERATOR && length == 1 && text[0] == '='
MatchAssignOperator(parser) ==
    /\ match(parser, DM_TOKEN_OPERATOR)
    /\ parser.current.length = 1
    /\ CharAt(parser.lexer.source, parser.current.text) = "="

consume(parser) ==
    LET Next(r) ==
            [err |-> r.err,
             parser |-> [parser EXCEPT !.lexer = r.lexer, !.current = r.token]]
    IN  Next(dm_lexer_next_token(parser.lexer, parser.current))

Parsed(node, parser) == [node |-> node, parser |-> parser]
Failed(parser) == [node |-> NULL, parser |-> parser]

\* `return node;` of a tree that is made of blocks
Built(node, parser, blocks) == Parsed(node, [parser EXCEPT !.built = blocks])

\* `dm_free(...); ... return NULL;`
FailedFreeing(parser, blocks) == Failed(dm_free(parser, blocks))

\* `if (consume(parser) != DM_SUCCESS) return NULL;` and then Rest
Consumed(c, Rest(_)) ==
    IF c.err # DM_SUCCESS THEN Failed(c.parser) ELSE Rest(c.parser)

\* `if (consume(parser) != DM_SUCCESS) { dm_free(...); return NULL; }`
ConsumedOr(c, blocks, Rest(_)) ==
    IF c.err # DM_SUCCESS THEN FailedFreeing(c.parser, blocks) ELSE Rest(c.parser)

\* `node = parse_...(parser); if (node == NULL) return NULL;` and then Rest
NonNull(r, Rest(_, _)) ==
    IF r.node = NULL THEN Failed(r.parser) ELSE Rest(r.node, r.parser)

\* `node = parse_...(parser); if (node == NULL) { dm_free(...); return NULL; }`
NonNullOr(r, blocks, Rest(_, _)) ==
    IF r.node = NULL THEN FailedFreeing(r.parser, blocks)
    ELSE Rest(r.node, r.parser)

\* the same with `report_error(parser, message)` before the return
Expected(r, message, Rest(_, _)) ==
    IF r.node = NULL THEN Failed(report_error(r.parser, message))
    ELSE Rest(r.node, r.parser)

ExpectedOr(r, message, blocks, Rest(_, _)) ==
    IF r.node = NULL THEN FailedFreeing(report_error(r.parser, message), blocks)
    ELSE Rest(r.node, r.parser)

RECURSIVE parse_statement(_)
RECURSIVE parse_expression(_)
RECURSIVE parse_binary(_, _)
RECURSIVE parse_unary(_)
RECURSIVE parse_primary(_)
RECURSIVE parse_block(_)
RECURSIVE parse_if(_)
RECURSIVE parse_while(_)
RECURSIVE parse_function(_)
RECURSIVE parse_return(_)
RECURSIVE parse_assignment(_)

\* a precedence table without levels: every arithmetic operator binds alike
get_binary_precedence_flat(op) ==
    IF op \in {"+", "-", "*", "/", "%"} THEN 1 ELSE 0

\* get_binary_precedence(op) for the first byte of the operator token
get_binary_precedence(op) ==
    IF op \in {"+", "-"} THEN 1
    ELSE IF op \in {"*", "/", "%"} THEN 2
    ELSE 0

get_binary_operator(op) ==
    CASE op = "+" -> DM_OP_ADD
      [] op = "-" -> DM_OP_SUB
      [] op = "*" -> DM_OP_MUL
      [] op = "/" -> DM_OP_DIV
      [] op = "%" -> DM_OP_MOD
      [] OTHER -> DM_OP_INVALID

\* parser->current.text[0]
FirstChar(parser) == CharAt(parser.lexer.source, parser.current.text)

parse_expression(parser) == parse_binary(parser, 1)

\* the while loop of parse_binary (parser.c 868-902)
\* held: the blocks of left
RECURSIVE ParseBinaryLoop(_, _, _, _)
ParseBinaryLoop(parser, left, precedence, held) ==
    IF match(parser, DM_TOKEN_OPERATOR)
       /\ get_binary_precedence(FirstChar(parser)) >= precedence
    THEN ConsumedOr(consume(parser), held, LAMBDA p1 :
         NonNullOr(parse_binary(p1, get_binary_precedence(FirstChar(parser)) + 1),
                   held, LAMBDA right, p2 :
         \* binary = create_node(...)
         ParseBinaryLoop(Malloc(p2), Binary(get_binary_operator(FirstChar(parser)),
                                            left, right),
                         precedence, held \cup p2.built \cup {New(p2)})))
    ELSE Built(left, parser, held)

parse_binary(parser, precedence) ==
    NonNull(parse_unary(parser), LAMBDA left, p :
    ParseBinaryLoop(p, left, precedence, p.built))

parse_unary(parser) ==
    IF match(parser, DM_TOKEN_OPERATOR) /\ FirstChar(parser) \in {"-", "!"}
    THEN Consumed(consume(parser), LAMBDA p1 :
         NonNull(parse_unary(p1), LAMBDA operand, p2 :
         \* unary = create_node(...)
         Built(Unary(IF FirstChar(parser) = "-" THEN DM_OP_NEG ELSE DM_OP_NOT,
                     operand), Malloc(p2), p2.built \cup {New(p2)})))
    ELSE parse_primary(parser)

\* the argument loop of parse_primary (parser.c 708-764): the node holds the
\* arguments array, and is NULL when the loop returned NULL.  held: the
\* blocks of the name, of the arguments so far and of their array, which
\* dm_realloc allocates when the first argument is stored.
RECURSIVE ParseArguments(_, _, _)
ParseArguments(parser, arguments, held) ==
    IF match_symbol(parser, ")")
    THEN Built([arguments |-> arguments], parser, held)
    ELSE IF Len(arguments) > 0 /\ ~match_symbol(parser, ",")
    THEN FailedFreeing(report_error(parser, "Expected ',' between arguments"), held)
    ELSE ConsumedOr(IF Len(arguments) > 0 THEN consume(parser)
                    ELSE [err |-> DM_SUCCESS, parser |-> parser], held, LAMBDA p1 :
         ExpectedOr(parse_expression(p1), "Expected expression for argument", held,
                    LAMBDA argument, p2 :
         IF Len(arguments) = 0
         THEN ParseArguments(Malloc(p2), <<argument>>,
                             held \cup p2.built \cup {New(p2)})
         ELSE ParseArguments(p2, Append(arguments, argument), held \cup p2.built)))

parse_primary(parser) ==
    LET src == parser.lexer.source
        \* `node = create_node(...); consume(parser); return node;`: the
        \* error code is dropped
        After(node) == Built(node, consume(Malloc(parser)).parser, {New(parser)})
    IN  IF match(parser, DM_TOKEN_NUMBER)
        THEN After(NumberLiteral(atof(src, parser.current.text)))
        ELSE IF match(parser, DM_TOKEN_STRING)
        THEN \* value = dm_malloc(...) before the node
             Built(StringLiteral(Text(src, parser.current.text + 1,
                                      parser.current.length - 2)),
                   consume(Malloc(Malloc(parser))).parser,
                   {New(parser), New(Malloc(parser))})
        ELSE IF match_keyword(parser, "true") \/ match_keyword(parser, "false")
        THEN \* strcmp(parser->current.text, "true") == 0 on the unterminated text
             After(BooleanLiteral(CStr(src, parser.current.text) = "true"))
        ELSE IF match_keyword(parser, "null")
        THEN After(NullLiteral)
        ELSE IF match(parser, DM_TOKEN_IDENTIFIER)
        THEN \* name = dm_malloc(...)
             ConsumedOr(consume(Malloc(parser)), {New(parser)}, LAMBDA p1 :
             IF match_symbol(p1, "(")
             THEN ConsumedOr(consume(p1), {New(parser)}, LAMBDA p2 :
                  NonNull(ParseArguments(p2, <<>>, {New(parser)}), LAMBDA args, p3 :
                  ConsumedOr(consume(p3), p3.built, LAMBDA p4 :
                  Built(Call(TokenText(parser), args.arguments), Malloc(p4),
                        p3.built \cup {New(p4)}))))
             ELSE Built(Variable(TokenText(parser)), Malloc(p1),
                        {New(parser), New(p1)}))
        ELSE IF match_symbol(parser, "(")
        THEN Consumed(consume(parser), LAMBDA p1 :
             NonNull(parse_expression(p1), LAMBDA expr, p2 :
             IF ~match_symbol(p2, ")")
             THEN FailedFreeing(report_error(p2, "Expected ')' after expression"),
                                p2.built)
             ELSE ConsumedOr(consume(p2), p2.built, LAMBDA p3 :
                  Built(expr, p3, p2.built))))
        ELSE Failed(report_error(parser, "Expected expression"))

\* `if (!match_symbol(';')) error; if (consume() != SUCCESS) error; return node`
\* where both error paths free the blocks of the node
ExpectSemicolon(node, parser, message, blocks) ==
    IF ~match_symbol(parser, ";")
    THEN FailedFreeing(report_error(parser, message), blocks)
    ELSE ConsumedOr(consume(parser), blocks, LAMBDA p : Built(node, p, blocks))

parse_statement(parser) ==
    IF match_keyword(parser, "let") \/ match_keyword(parser, "var")
       \/ match_keyword(parser, "const")
    THEN parse_assignment(parser)
    ELSE IF match_keyword(parser, "function") THEN parse_function(parser)
    ELSE IF match_keyword(parser, "return") THEN parse_return(parser)
    ELSE IF match_keyword(parser, "if") THEN parse_if(parser)
    ELSE IF match_keyword(parser, "while") THEN parse_while(parser)
    ELSE IF match_symbol(parser, "{") THEN parse_block(parser)
    ELSE IF match(parser, DM_TOKEN_IDENTIFIER)
    THEN \* name = dm_malloc(...)
         ConsumedOr(consume(Malloc(parser)), {New(parser)}, LAMBDA p1 :
         IF MatchAssignOperator(p1)
         THEN \* node = create_node(...)
              ConsumedOr(consume(Malloc(p1)), {New(parser), New(p1)}, LAMBDA p2 :
              NonNullOr(parse_expression(p2), {New(parser), New(p1)},
                        LAMBDA value, p3 :
              ExpectSemicolon(Assignment(TokenText(parser), value, FALSE), p3,
                              "Expected ';' after assignment",
                              {New(parser), New(p1)} \cup p3.built)))
         ELSE \* "Not an assignment, must be a variable reference"
              ExpectSemicolon(Variable(TokenText(parser)), Malloc(p1),
                              "Expected ';' after expression",
                              {New(parser), New(p1)}))
    ELSE NonNull(parse_expression(parser), LAMBDA expr, p1 :
         ExpectSemicolon(expr, p1, "Expected ';' after expression", p1.built))

parse_assignment(parser) ==
    LET is_declaration == match_keyword(parser, "let") \/ match_keyword(parser, "var")
                          \/ match_keyword(parser, "const")
    IN  Consumed(IF is_declaration THEN consume(parser)
                 ELSE [err |-> DM_SUCCESS, parser |-> parser], LAMBDA p0 :
        IF ~match(p0, DM_TOKEN_IDENTIFIER)
        THEN Failed(report_error(p0, "Expected variable name"))
        ELSE \* name = dm_malloc(...)
             ConsumedOr(consume(Malloc(p0)), {New(p0)}, LAMBDA p1 :
             IF ~MatchAssignOperator(p1)
             THEN FailedFreeing(report_error(p1, "Expected '=' in assignment"),
                                {New(p0)})
             ELSE ConsumedOr(consume(p1), {New(p0)}, LAMBDA p2 :
                  NonNullOr(parse_expression(p2), {New(p0)}, LAMBDA value, p3 :
                  IF ~match_symbol(p3, ";")
                  THEN FailedFreeing(report_error(p3, "Expected ';' after assignment"),
                                     {New(p0)} \cup p3.built)
                  ELSE ConsumedOr(consume(p3), {New(p0)} \cup p3.built, LAMBDA p4 :
                       \* the node is created last
                       Built(Assignment(TokenText(p0), value, is_declaration),
                             Malloc(p4), {New(p0), New(p4)} \cup p3.built))))))

\* the statement loop of parse_block (parser.c 973-1023): the node holds the
\* statements array, and is NULL when the loop returned NULL.  held: the
\* blocks of the block node, of its array and of the statements so far.
RECURSIVE ParseBlockStatements(_, _, _)
ParseBlockStatements(parser, statements, held) ==
    IF match_symbol(parser, "}")
    THEN Built([statements |-> statements], parser, held)
    ELSE IF match(parser, DM_TOKEN_EOF)
    THEN FailedFreeing(report_error(parser, "Unexpected end of file, expected '}'"),
                       held)
    ELSE NonNullOr(parse_statement(parser), held, LAMBDA stmt, p :
         ParseBlockStatements(p, Append(statements, stmt), held \cup p.built))

parse_block(parser) ==
    IF ~match_symbol(parser, "{")
    THEN Failed(report_error(parser, "Expected '{' to begin block"))
    ELSE Consumed(consume(parser), LAMBDA p1 :
         \* node = create_node(...); node->block.statements = dm_malloc(...)
         NonNull(ParseBlockStatements(Malloc(Malloc(p1)), <<>>,
                                      {New(p1), New(Malloc(p1))}),
                 LAMBDA b, p2 :
         ConsumedOr(consume(p2), p2.built, LAMBDA p3 :
         Built(Block(b.statements), p3, p2.built))))

parse_if(parser) ==
    IF ~match_keyword(parser, "if") THEN Failed(report_error(parser, "Expected 'if'"))
    ELSE Consumed(consume(parser), LAMBDA p1 :
         IF ~match_symbol(p1, "(")
         THEN Failed(report_error(p1, "Expected '(' after 'if'"))
         ELSE Consumed(consume(p1), LAMBDA p2 :
              NonNull(parse_expression(p2), LAMBDA condition, p3 :
              IF ~match_symbol(p3, ")")
              THEN FailedFreeing(report_error(p3, "Expected ')' after condition"),
                                 p3.built)
              ELSE ConsumedOr(consume(p3), p3.built, LAMBDA p4 :
                   NonNullOr(parse_statement(p4), p3.built, LAMBDA then_branch, p5 :
                   IF match_keyword(p5, "else")
                   THEN ConsumedOr(consume(p5), p3.built \cup p5.built, LAMBDA p6 :
                        NonNullOr(parse_statement(p6), p3.built \cup p5.built,
                                  LAMBDA else_branch, p7 :
                        Built(If(condition, then_branch, else_branch), Malloc(p7),
                              p3.built \cup p5.built \cup p7.built \cup {New(p7)})))
                   ELSE Built(If(condition, then_branch, NULL), Malloc(p5),
                              p3.built \cup p5.built \cup {New(p5)}))))))

\* parse_while is entered with the `while` keyword still the current token
parse_while(parser) ==
    IF ~match_symbol(parser, "(")
    THEN Failed(report_error(parser, "Expected '(' after 'while'"))
    ELSE Consumed(consume(parser), LAMBDA p1 :
         Expected(parse_expression(p1), "Expected condition in while loop",
                  LAMBDA condition, p2 :
         IF ~match_symbol(p2, ")")
         THEN FailedFreeing(report_error(p2, "Expected ')' after while condition"),
                            p2.built)
         ELSE ConsumedOr(consume(p2), p2.built, LAMBDA p3 :
              ExpectedOr(parse_statement(p3), "Expected body for while loop",
                         p2.built, LAMBDA body, p4 :
              Built(While(condition, body), Malloc(p4),
                    p2.built \cup p4.built \cup {New(p4)})))))

\* the parameter loop of parse_function (parser.c 1226-1299): the node holds
\* the parameters array, and is NULL when the loop returned NULL.  held: the
\* blocks of the function's name, of the parameters so far and of their
\* array, which realloc allocates when the first parameter is stored.
RECURSIVE ParseParameters(_, _, _)
ParseParameters(parser, parameters, held) ==
    IF match_symbol(parser, ")")
    THEN Built([parameters |-> parameters], parser, held)
    ELSE IF Len(parameters) > 0 /\ ~match_symbol(parser, ",")
    THEN FailedFreeing(report_error(parser, "Expected ',' between parameters"), held)
    ELSE ConsumedOr(IF Len(parameters) > 0 THEN consume(parser)
                    ELSE [err |-> DM_SUCCESS, parser |-> parser], held, LAMBDA p1 :
         IF ~match(p1, DM_TOKEN_IDENTIFIER)
         THEN FailedFreeing(report_error(p1, "Expected parameter name"), held)
         ELSE LET \* realloc(parameters, ...) for the first one, then strdup
                  stored == IF Len(parameters) = 0 THEN Malloc(Malloc(p1))
                            ELSE Malloc(p1)
                  holds == held \cup (New(p1)..(New(stored) - 1))
              IN  ConsumedOr(consume(stored), holds, LAMBDA p2 :
                  \* strdup(parser->current.text): up to the NUL of the source
                  ParseParameters(p2, Append(parameters,
                                             CStr(p1.lexer.source, p1.current.text)),
                                  holds)))

\* parse_function is entered with the `function` keyword still the current token
parse_function(parser) ==
    IF ~match(parser, DM_TOKEN_IDENTIFIER)
    THEN Failed(report_error(parser,
                             "Expected function name after 'function' keyword"))
    ELSE \* name = strdup(...)
         ConsumedOr(consume(Malloc(parser)), {New(parser)}, LAMBDA p1 :
         IF ~match_symbol(p1, "(")
         THEN FailedFreeing(report_error(p1, "Expected '(' after function name"),
                            {New(parser)})
         ELSE ConsumedOr(consume(p1), {New(parser)}, LAMBDA p2 :
              NonNull(ParseParameters(p2, <<>>, {New(parser)}), LAMBDA ps, p3 :
              ConsumedOr(consume(p3), p3.built, LAMBDA p4 :
              ExpectedOr(parse_statement(p4), "Expected function body", p3.built,
                         LAMBDA body, p5 :
              \* strdup(parser->current.text): up to the NUL of the source
              Built(Function(CStr(parser.lexer.source, parser.current.text),
                             ps.parameters, body),
                    Malloc(p5), p3.built \cup p5.built \cup {New(p5)}))))))

parse_return(parser) ==
    Consumed(consume(parser), LAMBDA p1 :
    LET \* the semicolon, and then the node; value_blocks: the blocks of value
        Semicolon(value, p2, value_blocks) ==
            IF ~match_symbol(p2, ";")
            THEN FailedFreeing(report_error(p2, "Expected ';' after return statement"),
                               value_blocks)
            ELSE ConsumedOr(consume(p2), value_blocks, LAMBDA p3 :
                 Built(Return(value), Malloc(p3), value_blocks \cup {New(p3)}))
    IN  IF match_symbol(p1, ";")
        THEN Semicolon(NULL, p1, {})
        ELSE Expected(parse_expression(p1), "Expected expression after 'return'",
                      LAMBDA value, p2 : Semicolon(value, p2, p2.built)))

\* held: the blocks of the node, of its array and of the statements so far
RECURSIVE ParseProgramStatements(_, _, _)
ParseProgramStatements(parser, statements, held) ==
    IF parser.current.type = DM_TOKEN_EOF
    THEN Built(Program(statements), parser, held)
    ELSE NonNullOr(parse_statement(parser), held, LAMBDA stmt, p :
         ParseProgramStatements(p, Append(statements, stmt), held \cup p.built))

parse_program(parser) ==
    LET \* node = create_node(...); node->program.statements = dm_malloc(...)
        Statements(node) ==
            ConsumedOr(consume(Malloc(node)), {New(parser), New(node)}, LAMBDA p :
            ParseProgramStatements(p, <<>>, {New(parser), New(node)}))
    IN  Statements(Malloc(parser))

\* a dm_parser_parse that takes the error message, not the tree, as the sign
\* of failure
dm_parser_parse_by_message(parser) ==
    LET Result(program) ==
            [err |-> IF program.parser.error_message # ""
                     THEN DM_ERROR_SYNTAX_ERROR ELSE DM_SUCCESS,
             result |-> program.node, parser |-> program.parser]
    IN  Result(parse_program(parser))

\* dm_parser_parse(parser, &result) with *result == NULL on entry, as every
\* caller has it: on failure *result is not written
dm_parser_parse(parser) ==
    LET Result(program) ==
            [err |-> IF program.node = NULL THEN DM_ERROR_SYNTAX_ERROR ELSE DM_SUCCESS,
             result |-> program.node, parser |-> program.parser]
    IN  Result(parse_program(parser))

\* the parse half of dm_execute_source (part_008 1070-1082)
ParseSource(src) == dm_parser_parse(dm_parser_init(src, Len(src)))

(***************************************************************************)
(* The input line: tokens typed one after the other, separated by a blank. *)
(***************************************************************************)
RECURSIVE Join(_)
Join(tokens) ==
    IF tokens = <<>> THEN ""
    ELSE IF Len(tokens) = 1 THEN tokens[1]
    ELSE tokens[1] \o " " \o Join(Tail(tokens))

(***************************************************************************)
(* Values and scopes (src/unnamed/part_006).  A scope is named by the      *)
(* address dm_malloc gave it, here the least number not in use; 0 is       *)
(* NULL.  The symbol table of a scope is its table_size hash buckets, each  *)
(* the chain of symbols linked from it, the newest first.                  *)
(***************************************************************************)
DM_TYPE_NULL == "DM_TYPE_NULL"
DM_TYPE_BOOLEAN == "DM_TYPE_BOOLEAN"
DM_TYPE_FLOAT == "DM_TYPE_FLOAT"
DM_TYPE_STRING == "DM_TYPE_STRING"
DM_TYPE_FUNCTION == "DM_TYPE_FUNCTION"

\* dm_value_init
NullValue == [type |-> DM_TYPE_NULL]
BooleanValue(b) == [type |-> DM_TYPE_BOOLEAN, boolean |-> b]
FloatValue(x) == [type |-> DM_TYPE_FLOAT, floating |-> x]
StringValue(str) == [type |-> DM_TYPE_STRING, string |-> str]
\* as.function.user_data: the declaration node, inside the AST allocated by
\* input number `ast`
FunctionValue(ast, node) ==
    [type |-> DM_TYPE_FUNCTION, user_data |-> [ast |-> ast, node |-> node]]

NoScope == 0

\* the bytes an identifier can hold, each run in the order of its codes
CodedRuns ==
    <<[first |-> 48, bytes |-> "0123456789"],
      [first |-> 65, bytes |-> "ABCDEFGHIJKLMNOPQRSTUVWXYZ"],
      [first |-> 95, bytes |-> "_"],
      [first |-> 97, bytes |-> "abcdefghijklmnopqrstuvwxyz"]>>

\* the value of a byte as an int
Code(ch) ==
    LET at == CHOOSE at \in {<<r, i>> \in (DOMAIN CodedRuns) \X (1..26) :
                                 i <= Len(CodedRuns[r].bytes)} :
                  SubSeq(CodedRuns[at[1]].bytes, at[2], at[2]) = ch
    IN  CodedRuns[at[1]].first + at[2] - 1

hash_seed == 5381

\* size_t wraps at 2^64 and every table size is a power of two that divides
\* it, so the bucket depends on the low bits of the hash only: the low 16 are
\* kept, which wrap exactly as the low 16 bits of the size_t do
LowBits == 65536

\* the loop of hash_string: hash = ((hash << 5) + hash) + c, in size_t
RECURSIVE hash_loop(_, _)
hash_loop(str, hash) ==
    IF str = "" THEN hash
    ELSE hash_loop(SubSeq(str, 2, Len(str)),
                   ((hash * 32 + hash) + Code(SubSeq(str, 1, 1))) % LowBits)

hash_string(str, size) == hash_loop(str, hash_seed) % size

table_size == 64

\* calloc(table_size, sizeof(dm_symbol_t*)): every bucket an empty chain
EmptySymbols == [bucket \in 0..(table_size - 1) |-> <<>>]

\* the chain entries of a symbol table, bucket after bucket
RECURSIVE EntriesFrom(_, _)
EntriesFrom(symbols, bucket) ==
    IF bucket \notin DOMAIN symbols THEN <<>>
    ELSE symbols[bucket] \o EntriesFrom(symbols, bucket + 1)

Entries(symbols) == EntriesFrom(symbols, 0)

Names(symbols) == {Entries(symbols)[i].name : i \in 1..Len(Entries(symbols))}

\* the walk along one bucket's chain: the position of the first symbol with
\* this name, 0 when the chain ends before one is found
RECURSIVE FindSymbol(_, _, _)
FindSymbol(chain, name, i) ==
    IF i > Len(chain) THEN 0
    ELSE IF chain[i].name = name THEN i
    ELSE FindSymbol(chain, name, i + 1)

dm_scope_create(c, parent) ==
    LET scope == CHOOSE id \in 1..(Cardinality(DOMAIN c.scopes) + 1) :
                     /\ id \notin DOMAIN c.scopes
                     /\ \A other \in 1..(id - 1) : other \in DOMAIN c.scopes
    IN  [scope |-> scope,
         ctx |-> [c EXCEPT !.scopes =
                      (scope :> [parent |-> parent, symbols |-> EmptySymbols,
                                 size |-> table_size]) @@ @]]

\* a dm_scope_destroy that leaves the scope where it is
dm_scope_destroy_nothing(c, scope) == c

dm_scope_destroy(c, scope) ==
    [c EXCEPT !.scopes = [id \in DOMAIN c.scopes \ {scope} |-> c.scopes[id]]]

\* the symbol's value is replaced by a copy of `value`, or the symbol is added
\* a dm_scope_define that puts the new symbol at the head of its bucket
\* without walking the chain first
dm_scope_define_unsearched(c, scope, name, value) ==
    LET hash == hash_string(name, c.scopes[scope].size)
    IN  [c EXCEPT !.scopes[scope].symbols[hash] =
             <<[name |-> name, value |-> value]>> \o @]

dm_scope_define(c, scope, name, value) ==
    LET hash == hash_string(name, c.scopes[scope].size)
        found == FindSymbol(c.scopes[scope].symbols[hash], name, 1)
    IN  IF found # 0
        THEN [c EXCEPT !.scopes[scope].symbols[hash][found].value = value]
        ELSE [c EXCEPT !.scopes[scope].symbols[hash] =
                 <<[name |-> name, value |-> value]>> \o @]

RECURSIVE dm_scope_lookup(_, _, _)
dm_scope_lookup(c, scope, name) ==
    IF scope = NoScope
    THEN [err |-> DM_ERROR_INVALID_ARGUMENT, value |-> NullValue]
    ELSE LET chain == c.scopes[scope].symbols[hash_string(name, c.scopes[scope].size)]
             found == FindSymbol(chain, name, 1)
         IN  IF found # 0
             THEN [err |-> DM_SUCCESS, value |-> chain[found].value]
             ELSE dm_scope_lookup(c, c.scopes[scope].parent, name)

\* dm_context_create: one global scope, which is the current scope
dm_context_create ==
    LET g == dm_scope_create([scopes |-> [id \in {} |-> 0]], NoScope)
    IN  [scopes |-> g.ctx.scopes, global_scope |-> g.scope, current_scope |-> g.scope,
         running |-> TRUE, exit_code |-> 0,
         \* isatty(fileno(stdin)): dm_init sets what the terminal is
         interactive |-> FALSE,
         \* history: how many nodes of create_result_node are allocated
         result_nodes |-> 0]

(***************************************************************************)
(* dm_node_to_string (part_008 1106-1161); "%f" prints six decimals.       *)
(***************************************************************************)
RECURSIVE NatToString(_)
NatToString(n) ==
    IF n < 10 THEN Digits[n + 1]
    ELSE NatToString(n \div 10) \o Digits[(n % 10) + 1]

RECURSIVE ZeroPad(_, _)
ZeroPad(str, width) == IF Len(str) >= width THEN str ELSE ZeroPad("0" \o str, width)

\* printf("%f"): the value rounded to a multiple of 10^-6, ties to even
FormatF(x) ==
    LET a == Abs(x.n) * 1000000
        q == a \div x.d
        r == a % x.d
        micros == IF 2 * r > x.d \/ (2 * r = x.d /\ q % 2 = 1) THEN q + 1 ELSE q
    IN  (IF x.n < 0 THEN "-" ELSE "")
        \o NatToString(micros \div 1000000) \o "."
        \o ZeroPad(NatToString(micros % 1000000), 6)

dm_node_to_string(node) ==
    IF node.type = DM_NODE_LITERAL
    THEN CASE node.literal_type = DM_LITERAL_NUMBER -> FormatF(node.value)
           [] node.literal_type = DM_LITERAL_STRING -> node.value
           [] node.literal_type = DM_LITERAL_BOOLEAN ->
                  IF node.value THEN "true" ELSE "false"
           [] node.literal_type = DM_LITERAL_NULL -> "null"
    ELSE "[non-literal value]"

(***************************************************************************)
(* The evaluator (src/unnamed/part_008).  The C call stack is explicit:    *)
(* `stack` holds one frame per active eval_* call, the innermost last.  A  *)
(* frame keeps the node, where the call stands (pc) and its locals.  A     *)
(* call that finishes leaves its dm_error_t and what it stored through     *)
(* `result` (NULL if nothing) in `ret`, which its caller then reads.       *)
(***************************************************************************)
MaxStack == 24

EvalFunction ==
    DM_NODE_LITERAL :> "eval_literal" @@ DM_NODE_BINARY_OP :> "eval_binary" @@
    DM_NODE_UNARY_OP :> "eval_unary" @@ DM_NODE_VARIABLE :> "eval_variable" @@
    DM_NODE_ASSIGNMENT :> "eval_assignment" @@ DM_NODE_BLOCK :> "eval_block" @@
    DM_NODE_IF :> "eval_if" @@ DM_NODE_WHILE :> "eval_while" @@
    DM_NODE_CALL :> "eval_function_call" @@
    DM_NODE_FUNCTION :> "eval_function_declaration" @@
    DM_NODE_RETURN :> "eval_return" @@ DM_NODE_PROGRAM :> "eval_program"

\* dm_eval_node(ctx, node, &result): the frame of the eval_* function the
\* switch selects; `ast` is the allocation the node lives in
dm_eval_node(node, ast) ==
    [fn |-> EvalFunction[node.type], node |-> node, ast |-> ast, pc |-> "enter",
     i |-> 0, saved |-> NULL, previous_scope |-> NoScope, own_scope |-> NoScope,
     ghost |-> NULL]

\* what a finished call leaves behind; ghost is history for the properties
Ret(err, result, from, g) == [err |-> err, result |-> result, from |-> from, ghost |-> g]

\* the conversions of a result node to a truth value: eval_if 691-715,
\* eval_while 758-782, eval_binary 344-362 and 371-389
Truthy(result) ==
    IF result.type = DM_NODE_LITERAL
    THEN CASE result.literal_type = DM_LITERAL_BOOLEAN -> result.value
           [] result.literal_type = DM_LITERAL_NUMBER -> ~RatIsZero(result.value)
           [] result.literal_type = DM_LITERAL_STRING -> Len(result.value) > 0
           [] result.literal_type = DM_LITERAL_NULL -> FALSE
    ELSE TRUE

\* result node to dm_value_t: eval_assignment 547-576
NodeToValue(result) ==
    IF result.type = DM_NODE_LITERAL
    THEN CASE result.literal_type = DM_LITERAL_NULL -> NullValue
           [] result.literal_type = DM_LITERAL_BOOLEAN -> BooleanValue(result.value)
           [] result.literal_type = DM_LITERAL_NUMBER -> FloatValue(result.value)
           [] result.literal_type = DM_LITERAL_STRING -> StringValue(result.value)
    ELSE NullValue

\* dm_value_t to result node: eval_variable 490-524
ValueToNode(value) ==
    CASE value.type = DM_TYPE_NULL -> NullLiteral
      [] value.type = DM_TYPE_BOOLEAN -> BooleanLiteral(value.boolean)
      [] value.type = DM_TYPE_FLOAT -> NumberLiteral(value.floating)
      [] value.type = DM_TYPE_STRING -> StringLiteral(value.string)
      [] OTHER -> NullLiteral

ArithmeticOps == {DM_OP_ADD, DM_OP_SUB, DM_OP_MUL, DM_OP_DIV, DM_OP_MOD}

IsNumeric(result) ==
    result.literal_type \in {DM_LITERAL_NUMBER, DM_LITERAL_BOOLEAN}

\* the operand as a double: eval_binary 191-219
AsNumber(result) ==
    IF result.literal_type = DM_LITERAL_NUMBER THEN result.value
    ELSE IF result.value THEN Int2Rat(1) ELSE Int2Rat(0)

\* eval_binary 365-366: the left operand alone fixes the result
LeftDetermines(op, left_result) ==
    \/ op = DM_OP_AND /\ ~Truthy(left_result)
    \/ op = DM_OP_OR /\ Truthy(left_result)

\* eval_binary from line 162 on: both operand results are at hand
BinaryResult(op, l, r) ==
    LET Ok(node) == [err |-> DM_SUCCESS, result |-> node]
        Error(e) == [err |-> e, result |-> NULL]
    IN  IF op \in ArithmeticOps
        THEN IF l.type # DM_NODE_LITERAL \/ r.type # DM_NODE_LITERAL
                \/ ~IsNumeric(l) \/ ~IsNumeric(r)
             THEN Error(DM_ERROR_TYPE_MISMATCH)
             ELSE LET a == AsNumber(l)
                      b == AsNumber(r)
                  IN  CASE op = DM_OP_ADD -> Ok(NumberLiteral(RatAdd(a, b)))
                        [] op = DM_OP_SUB -> Ok(NumberLiteral(RatSub(a, b)))
                        [] op = DM_OP_MUL -> Ok(NumberLiteral(RatMul(a, b)))
                        [] op = DM_OP_DIV ->
                               IF RatIsZero(b) THEN Error(DM_ERROR_DIVISION_BY_ZERO)
                               ELSE Ok(NumberLiteral(RatDiv(a, b)))
                        [] op = DM_OP_MOD ->
                               IF RatIsZero(b) THEN Error(DM_ERROR_DIVISION_BY_ZERO)
                               ELSE Ok(NumberLiteral(RatFmod(a, b)))
        ELSE IF op \in {DM_OP_EQ, DM_OP_NEQ}
        THEN LET equal ==
                     /\ l.type = DM_NODE_LITERAL /\ r.type = DM_NODE_LITERAL
                     /\ l.literal_type = r.literal_type
                     /\ \/ l.literal_type = DM_LITERAL_NULL
                        \/ l.value = r.value
             IN  Ok(BooleanLiteral(IF op = DM_OP_EQ THEN equal ELSE ~equal))
        ELSE IF op \in {DM_OP_LT, DM_OP_GT, DM_OP_LTE, DM_OP_GTE}
        THEN IF l.type # DM_NODE_LITERAL \/ r.type # DM_NODE_LITERAL
                \/ l.literal_type # DM_LITERAL_NUMBER
                \/ r.literal_type # DM_LITERAL_NUMBER
             THEN Error(DM_ERROR_TYPE_MISMATCH)
             ELSE LET a == l.value
                      b == r.value
                  IN  CASE op = DM_OP_LT -> Ok(BooleanLiteral(RatLt(a, b)))
                        [] op = DM_OP_GT -> Ok(BooleanLiteral(RatLt(b, a)))
                        [] op = DM_OP_LTE -> Ok(BooleanLiteral(~RatLt(b, a)))
                        [] op = DM_OP_GTE -> Ok(BooleanLiteral(~RatLt(a, b)))
        ELSE IF op \in {DM_OP_AND, DM_OP_OR}
        THEN IF LeftDetermines(op, l) THEN Ok(BooleanLiteral(Truthy(l)))
             ELSE IF op = DM_OP_AND
                  THEN Ok(BooleanLiteral(Truthy(l) /\ Truthy(r)))
                  ELSE Ok(BooleanLiteral(Truthy(l) \/ Truthy(r)))
        ELSE Error(DM_ERROR_INVALID_ARGUMENT)

\* eval_unary from line 421 on
UnaryResult(op, operand) ==
    LET Ok(node) == [err |-> DM_SUCCESS, result |-> node]
        Error(e) == [err |-> e, result |-> NULL]
    IN  CASE op = DM_OP_NEG ->
                 IF operand.type # DM_NODE_LITERAL
                    \/ operand.literal_type # DM_LITERAL_NUMBER
                 THEN Error(DM_ERROR_TYPE_MISMATCH)
                 ELSE Ok(NumberLiteral(RatNeg(operand.value)))
          [] op = DM_OP_NOT ->
                 IF operand.type # DM_NODE_LITERAL
                    \/ operand.literal_type # DM_LITERAL_BOOLEAN
                 THEN Error(DM_ERROR_TYPE_MISMATCH)
                 ELSE Ok(BooleanLiteral(~operand.value))
          [] OTHER -> Error(DM_ERROR_INVALID_ARGUMENT)

(***************************************************************************)
(* One step of an eval_* call: it either calls dm_eval_node on a child     *)
(* (StepCall), returns (StepReturn), or the process faults (StepFault).    *)
(***************************************************************************)
StepCallIn(c, self, child, ast, out) ==
    [kind |-> "call", ctx |-> c, self |-> self, child |-> child, ast |-> ast,
     out |-> out]

\* the child is a node of the AST the caller's node is in
StepCall(c, self, child, out) == StepCallIn(c, self, child, self.ast, out)

StepReturn(c, err, result, g) ==
    [kind |-> "return", ctx |-> c, err |-> err, result |-> result, ghost |-> g,
     out |-> <<>>]

StepFault == [kind |-> "fault"]

\* dm_scope_lookup copies into a dm_value_t its caller left uninitialised
\* (eval_variable 474, eval_assignment 584, eval_function_call 828):
\* dm_value_copy first runs dm_value_free on those bytes, which either finds
\* nothing to free or hands a stray pointer to free()
UninitializedValue == {"nothing to free", "stray pointer"}

\* reading a node of an AST that dm_node_free has released: the bytes are
\* still the node's, or have been reused, or the read faults
StaleRead == {"intact", "overwritten", "fault"}

\* the names visible from a scope with their values (history for properties)
RECURSIVE VisibleNames(_, _)
VisibleNames(c, scope) ==
    IF scope = NoScope THEN {}
    ELSE Names(c.scopes[scope].symbols) \cup VisibleNames(c, c.scopes[scope].parent)

Visible(c, scope) ==
    [name \in VisibleNames(c, scope) |-> dm_scope_lookup(c, scope, name).value]

\* create_result_node (part_008 14-27): one more node on the heap
create_result_node(c) == [c EXCEPT !.result_nodes = @ + 1]

\* dm_node_free of a result (dm_free of one not yet returned): free(NULL)
\* does nothing
ReleaseResult(c, node) ==
    IF node = NULL THEN c ELSE [c EXCEPT !.result_nodes = @ - 1]

\* both operand results of eval_binary released
ReleaseOperands(c, left_result, right_result) ==
    ReleaseResult(ReleaseResult(c, left_result), right_result)

eval_literal(c, f) == StepReturn(create_result_node(c), DM_SUCCESS, f.node, NULL)

eval_variable(c, f, garbage) ==
    LET found == dm_scope_lookup(c, c.current_scope, f.node.name)
    IN  IF found.err # DM_SUCCESS
        THEN StepReturn(c, DM_ERROR_UNDEFINED_VARIABLE, NULL, NULL)
        ELSE IF garbage = "stray pointer" THEN StepFault
        ELSE StepReturn(create_result_node(c), DM_SUCCESS,
                        ValueToNode(found.value), NULL)

eval_unary(c, f, r) ==
    IF f.pc = "enter"
    THEN StepCall(c, [f EXCEPT !.pc = "operand"], f.node.operand, <<>>)
    ELSE IF r.err # DM_SUCCESS THEN StepReturn(c, r.err, NULL, NULL)
    ELSE LET u == UnaryResult(f.node.op, r.result)
             operand_freed == ReleaseResult(c, r.result)
         IN  StepReturn(IF u.err = DM_SUCCESS THEN create_result_node(operand_freed)
                        ELSE operand_freed,
                        u.err, u.result, NULL)

\* both operands are evaluated (151-160) before the operator is looked at
\* an eval_binary whose quotient by zero is a number
eval_binary_zero_quotient(c, f, r) ==
    IF f.pc = "enter"
    THEN StepCall(c, [f EXCEPT !.pc = "left"], f.node.left, <<>>)
    ELSE IF f.pc = "left"
    THEN IF r.err # DM_SUCCESS THEN StepReturn(c, r.err, NULL, NULL)
         ELSE StepCall(c, [f EXCEPT !.pc = "right", !.saved = r.result],
                       f.node.right, <<>>)
    ELSE IF r.err # DM_SUCCESS
    THEN StepReturn(ReleaseResult(c, f.saved), r.err, NULL, NULL)
    ELSE LET b == BinaryResult(f.node.op, f.saved, r.result)
             g == [op |-> f.node.op, left |-> f.saved, right |-> r.result]
             operands_freed == ReleaseOperands(c, f.saved, r.result)
         IN  IF b.err = DM_ERROR_DIVISION_BY_ZERO
             THEN StepReturn(create_result_node(operands_freed), DM_SUCCESS,
                             NumberLiteral(Int2Rat(0)), g)
             ELSE StepReturn(IF b.err = DM_SUCCESS
                             THEN create_result_node(operands_freed)
                             ELSE operands_freed,
                             b.err, b.result, g)

\* the ghost of the last return is history: the operator and the operand
\* results it was applied to
eval_binary(c, f, r) ==
    IF f.pc = "enter"
    THEN StepCall(c, [f EXCEPT !.pc = "left"], f.node.left, <<>>)
    ELSE IF f.pc = "left"
    THEN IF r.err # DM_SUCCESS THEN StepReturn(c, r.err, NULL, NULL)
         ELSE StepCall(c, [f EXCEPT !.pc = "right", !.saved = r.result],
                       f.node.right, <<>>)
    ELSE IF r.err # DM_SUCCESS
    THEN StepReturn(ReleaseResult(c, f.saved), r.err, NULL, NULL)
    ELSE LET b == BinaryResult(f.node.op, f.saved, r.result)
             operands_freed == ReleaseOperands(c, f.saved, r.result)
         IN  StepReturn(IF b.err = DM_SUCCESS THEN create_result_node(operands_freed)
                        ELSE operands_freed,
                        b.err, b.result,
                        [op |-> f.node.op, left |-> f.saved, right |-> r.result])

\* the innermost scope, from `scope` outwards, that binds name
RECURSIVE BindingScope(_, _, _)
BindingScope(c, scope, name) ==
    IF scope = NoScope THEN NoScope
    ELSE IF name \in Names(c.scopes[scope].symbols) THEN scope
    ELSE BindingScope(c, c.scopes[scope].parent, name)

\* an eval_assignment whose plain assignment defines the name without
\* looking it up first
eval_assignment_unchecked(c, f, r, garbage) ==
    IF f.pc = "enter"
    THEN StepCall(c, [f EXCEPT !.pc = "value"], f.node.value, <<>>)
    ELSE IF r.err # DM_SUCCESS THEN StepReturn(c, r.err, NULL, NULL)
    ELSE StepReturn(dm_scope_define(c, c.current_scope, f.node.name,
                                    NodeToValue(r.result)),
                    DM_SUCCESS, r.result, NULL)

\* an eval_assignment whose plain assignment updates the binding where the
\* lookup found it
eval_assignment_where_bound(c, f, r, garbage) ==
    IF f.pc = "enter"
    THEN StepCall(c, [f EXCEPT !.pc = "value"], f.node.value, <<>>)
    ELSE IF r.err # DM_SUCCESS THEN StepReturn(c, r.err, NULL, NULL)
    ELSE LET value == NodeToValue(r.result)
         IN  IF f.node.is_declaration
             THEN StepReturn(dm_scope_define(c, c.current_scope, f.node.name, value),
                             DM_SUCCESS, r.result, NULL)
             ELSE IF dm_scope_lookup(c, c.current_scope, f.node.name).err # DM_SUCCESS
             THEN StepReturn(ReleaseResult(c, r.result),
                             DM_ERROR_UNDEFINED_VARIABLE, NULL, NULL)
             ELSE IF garbage = "stray pointer" THEN StepFault
             ELSE StepReturn(dm_scope_define(c, BindingScope(c, c.current_scope, f.node.name),
                                             f.node.name, value),
                             DM_SUCCESS, r.result, NULL)

eval_assignment(c, f, r, garbage) ==
    IF f.pc = "enter"
    THEN StepCall(c, [f EXCEPT !.pc = "value"], f.node.value, <<>>)
    ELSE IF r.err # DM_SUCCESS THEN StepReturn(c, r.err, NULL, NULL)
    ELSE LET value == NodeToValue(r.result)
             defined == dm_scope_define(c, c.current_scope, f.node.name, value)
         IN  IF f.node.is_declaration
             THEN StepReturn(defined, DM_SUCCESS, r.result, NULL)
             ELSE IF dm_scope_lookup(c, c.current_scope, f.node.name).err # DM_SUCCESS
             THEN StepReturn(ReleaseResult(c, r.result),
                             DM_ERROR_UNDEFINED_VARIABLE, NULL, NULL)
             ELSE IF garbage = "stray pointer" THEN StepFault
             ELSE StepReturn(defined, DM_SUCCESS, r.result, NULL)

\* a block end that leaves the block's scope in place as the current scope
BlockReturn_without_restore(c, f, err, stmt_result) ==
    StepReturn(IF stmt_result = NULL THEN create_result_node(c) ELSE c, err, IF stmt_result = NULL THEN NullLiteral ELSE stmt_result,
               [before |-> f.ghost, inside |-> Visible(c, c.current_scope),
                scope |-> f.own_scope])

\* eval_block 654-674: the scope is restored and destroyed, and a Null
\* literal stands in for a missing result, whatever err is.  History: the
\* bindings visible when the block was entered, those visible at its end,
\* and the scope that was the block's.
BlockReturn(c, f, err, stmt_result) ==
    StepReturn(dm_scope_destroy([IF stmt_result = NULL THEN create_result_node(c)
                                 ELSE c EXCEPT !.current_scope = f.previous_scope],
                                f.own_scope),
               err, IF stmt_result = NULL THEN NullLiteral ELSE stmt_result,
               [before |-> f.ghost, inside |-> Visible(c, c.current_scope),
                scope |-> f.own_scope])

eval_block(c, f, r) ==
    IF f.pc = "enter"
    THEN LET block_scope == dm_scope_create(c, c.current_scope)
             inside == [block_scope.ctx EXCEPT !.current_scope = block_scope.scope]
             self == [f EXCEPT !.pc = "statement", !.i = 1,
                               !.previous_scope = c.current_scope,
                               !.own_scope = block_scope.scope,
                               !.ghost = Visible(c, c.current_scope)]
         IN  IF Len(f.node.statements) = 0
             THEN BlockReturn(inside, self, DM_SUCCESS, NULL)
             ELSE StepCall(inside, self, f.node.statements[1], <<>>)
    ELSE IF r.err # DM_SUCCESS \/ f.i = Len(f.node.statements)
    THEN BlockReturn(c, f, r.err, r.result)
    ELSE StepCall(ReleaseResult(c, r.result), [f EXCEPT !.i = f.i + 1],
                  f.node.statements[f.i + 1], <<>>)

eval_if(c, f, r) ==
    IF f.pc = "enter"
    THEN StepCall(c, [f EXCEPT !.pc = "condition"], f.node.condition, <<>>)
    ELSE IF f.pc = "condition"
    THEN IF r.err # DM_SUCCESS THEN StepReturn(c, r.err, NULL, NULL)
         ELSE IF Truthy(r.result)
         THEN StepCall(ReleaseResult(c, r.result), [f EXCEPT !.pc = "branch"],
                       f.node.then_branch, <<>>)
         ELSE IF f.node.else_branch # NULL
         THEN StepCall(ReleaseResult(c, r.result), [f EXCEPT !.pc = "branch"],
                       f.node.else_branch, <<>>)
         ELSE StepReturn(create_result_node(ReleaseResult(c, r.result)),
                         DM_SUCCESS, NullLiteral, NULL)
    ELSE StepReturn(c, r.err, r.result, NULL)

\* eval_while 805-818
WhileReturn(c, err, latest_result) ==
    StepReturn(IF latest_result = NULL THEN create_result_node(c) ELSE c, err, IF latest_result = NULL THEN NullLiteral ELSE latest_result,
               NULL)

eval_while(c, f, r) ==
    IF f.pc = "enter"
    THEN StepCall(c, [f EXCEPT !.pc = "condition"], f.node.condition, <<>>)
    ELSE IF f.pc = "condition"
    THEN IF r.err # DM_SUCCESS THEN WhileReturn(c, r.err, f.saved)
         ELSE IF ~Truthy(r.result)
         THEN WhileReturn(ReleaseResult(c, r.result), DM_SUCCESS, f.saved)
         ELSE StepCall(ReleaseOperands(c, r.result, f.saved),
                       [f EXCEPT !.pc = "body", !.saved = NULL], f.node.body, <<>>)
    ELSE IF r.err # DM_SUCCESS THEN WhileReturn(c, r.err, r.result)
    ELSE StepCall(c, [f EXCEPT !.pc = "condition", !.saved = r.result],
                  f.node.condition, <<>>)

\* eval_function_call 937-952, once the arguments are bound
CallBody(c, f, function_node) ==
    StepCallIn([c EXCEPT !.current_scope = f.own_scope],
               [f EXCEPT !.pc = "body", !.previous_scope = c.current_scope],
               function_node.node.body, function_node.ast, <<>>)

\* history of a call that ends at the checks of lines 846-865: the counts
\* of the call and of the declaration, and the context it was made in
CallChecked(c, f, function_node) ==
    [type |-> "call checked", arg_count |-> Len(f.node.args),
     param_count |-> Len(function_node.node.params), ctx |-> c]

\* a scope for the call whose parent is the scope the functions are declared in
function_scope_of_declaration(c) == dm_scope_create(c, c.global_scope)

\* eval_function_call 868: dm_scope_create(ctx, ctx->current_scope)
function_scope(c) == dm_scope_create(c, c.current_scope)

eval_function_call(c, f, r, garbage, stale, released) ==
    LET found == dm_scope_lookup(c, c.current_scope, f.node.name)
        function_node == found.value.user_data
    IN  IF f.pc = "enter"
        THEN IF found.err # DM_SUCCESS
             THEN StepReturn(c, DM_ERROR_UNDEFINED_VARIABLE, NULL, NULL)
             ELSE IF garbage = "stray pointer" THEN StepFault
             ELSE IF found.value.type # DM_TYPE_FUNCTION
             THEN StepReturn(c, DM_ERROR_TYPE_MISMATCH, NULL, NULL)
             ELSE IF function_node.ast \in released /\ stale = "fault"
             THEN StepFault
             ELSE IF function_node.ast \in released /\ stale = "overwritten"
             THEN StepReturn(c, DM_ERROR_TYPE_MISMATCH, NULL,
                             CallChecked(c, f, function_node))
             ELSE IF Len(f.node.args) # Len(function_node.node.params)
             THEN StepReturn(c, DM_ERROR_INVALID_ARGUMENT, NULL,
                             CallChecked(c, f, function_node))
             ELSE LET created == function_scope(c)
                      self == [f EXCEPT !.own_scope = created.scope,
                                        !.saved = function_node]
                  IN  IF Len(f.node.args) = 0
                      THEN CallBody(created.ctx, self, function_node)
                      ELSE StepCall(created.ctx,
                                    [self EXCEPT !.pc = "argument", !.i = 1],
                                    f.node.args[1], <<>>)
        ELSE IF f.pc = "argument"
        THEN IF r.err # DM_SUCCESS
             THEN StepReturn(dm_scope_destroy(c, f.own_scope), r.err, NULL, NULL)
             ELSE IF r.result.type # DM_NODE_LITERAL
             THEN StepReturn(dm_scope_destroy(ReleaseResult(c, r.result), f.own_scope),
                             DM_ERROR_TYPE_MISMATCH, NULL, NULL)
             ELSE LET bound == dm_scope_define(ReleaseResult(c, r.result), f.own_scope,
                                               f.saved.node.params[f.i],
                                               NodeToValue(r.result))
                  IN  IF f.i = Len(f.node.args)
                      THEN CallBody(bound, f, f.saved)
                      ELSE StepCall(bound, [f EXCEPT !.i = f.i + 1],
                                    f.node.args[f.i + 1], <<>>)
        ELSE StepReturn(dm_scope_destroy([c EXCEPT !.current_scope = f.previous_scope],
                                         f.own_scope),
                        r.err, r.result, f.ghost)

eval_function_declaration(c, f) ==
    StepReturn(dm_scope_define(create_result_node(c), c.current_scope, f.node.name,
                               FunctionValue(f.ast, f.node)),
               DM_SUCCESS, StringLiteral(f.node.name), NULL)

eval_return(c, f, r) ==
    IF f.pc = "enter"
    THEN IF f.node.value # NULL
         THEN StepCall(c, [f EXCEPT !.pc = "value"], f.node.value, <<>>)
         ELSE StepReturn(create_result_node(c), DM_SUCCESS, NullLiteral, NULL)
    ELSE StepReturn(c, r.err, r.result, NULL)

\* eval_program 1037-1045: what the statement just evaluated prints
PrintResult(statement, stmt_result) ==
    IF stmt_result # NULL
       /\ statement.type \notin {DM_NODE_ASSIGNMENT, DM_NODE_FUNCTION}
    THEN <<"=> " \o dm_node_to_string(stmt_result)>>
    ELSE <<>>

eval_program(c, f, r) ==
    IF f.pc = "enter"
    THEN IF Len(f.node.statements) = 0
         THEN StepReturn(create_result_node(c), DM_SUCCESS, NullLiteral, NULL)
         ELSE StepCall(c, [f EXCEPT !.pc = "statement", !.i = 1],
                       f.node.statements[1], <<>>)
    ELSE IF r.err # DM_SUCCESS THEN StepReturn(c, r.err, NULL, NULL)
    ELSE LET out == PrintResult(f.node.statements[f.i], r.result)
         IN  IF f.i = Len(f.node.statements)
             THEN [StepReturn(IF r.result = NULL THEN create_result_node(c) ELSE c,
                              DM_SUCCESS,
                              IF r.result = NULL THEN NullLiteral ELSE r.result,
                              NULL) EXCEPT !.out = out]
             ELSE StepCall(ReleaseResult(c, r.result), [f EXCEPT !.i = f.i + 1],
                           f.node.statements[f.i + 1], out)

(***************************************************************************)
(* The actions: the innermost eval_* call takes its next step.             *)
(***************************************************************************)
Top == stack[Len(stack)]

Rest == SubSeq(stack, 1, Len(stack) - 1)

Running(fn) == mode = "running" /\ stack # <<>> /\ Top.fn = fn

\* history: the innermost function activation notes the first value a Return
\* statement of its body produced
Activation(frames) ==
    {k \in 1..Len(frames) :
        /\ frames[k].fn = "eval_function_call" /\ frames[k].pc = "body"
        /\ \A j \in (k + 1)..Len(frames) :
               ~(frames[j].fn = "eval_function_call" /\ frames[j].pc = "body")}

MarkReturned(frames, value) ==
    [k \in 1..Len(frames) |->
        IF k \in Activation(frames) /\ frames[k].ghost = NULL
        THEN [frames[k] EXCEPT !.ghost = value]
        ELSE frames[k]]

Apply(step) ==
    /\ CASE step.kind = "call" /\ Len(stack) < MaxStack ->
                /\ stack' = Append(Append(Rest, step.self),
                                   dm_eval_node(step.child, step.ast))
                /\ ret' = NULL
                /\ ctx' = step.ctx
                /\ output' = output \o step.out
                /\ mode' = mode
         [] step.kind = "return" ->
                /\ stack' = IF Top.fn = "eval_return" /\ step.err = DM_SUCCESS
                            THEN MarkReturned(Rest, step.result)
                            ELSE Rest
                /\ ret' = Ret(step.err, step.result, Top.fn, step.ghost)
                /\ ctx' = step.ctx
                /\ output' = output \o step.out
                /\ mode' = mode
         [] OTHER ->
                \* a fault, or a call for which the C stack has no room left
                /\ mode' = "crashed"
                /\ UNCHANGED <<stack, ret, ctx, output>>
    /\ UNCHANGED <<typed, parsed, session, run, freed, results, proc, lexed>>

EvalLiteral == Running("eval_literal") /\ Apply(eval_literal(ctx, Top))

EvalVariable ==
    /\ Running("eval_variable")
    /\ \E garbage \in UninitializedValue : Apply(eval_variable(ctx, Top, garbage))

EvalUnary == Running("eval_unary") /\ Apply(eval_unary(ctx, Top, ret))

EvalBinary == Running("eval_binary") /\ Apply(eval_binary(ctx, Top, ret))

EvalAssignment ==
    /\ Running("eval_assignment")
    /\ \E garbage \in UninitializedValue :
           Apply(eval_assignment(ctx, Top, ret, garbage))

EvalBlock == Running("eval_block") /\ Apply(eval_block(ctx, Top, ret))

EvalIf == Running("eval_if") /\ Apply(eval_if(ctx, Top, ret))

EvalWhile == Running("eval_while") /\ Apply(eval_while(ctx, Top, ret))

EvalFunctionCall ==
    /\ Running("eval_function_call")
    /\ \E garbage \in UninitializedValue, stale \in StaleRead :
           Apply(eval_function_call(ctx, Top, ret, garbage, stale, freed))

EvalFunctionDeclaration ==
    Running("eval_function_declaration") /\ Apply(eval_function_declaration(ctx, Top))

EvalReturn == Running("eval_return") /\ Apply(eval_return(ctx, Top, ret))

EvalProgram == Running("eval_program") /\ Apply(eval_program(ctx, Top, ret))

\* the body of a function whose AST has been released is being evaluated:
\* any read of its nodes may fault
ReadFreedNode ==
    /\ mode = "running" /\ stack # <<>> /\ Top.ast \in freed
    /\ mode' = "crashed"
    /\ UNCHANGED <<typed, parsed, session, run, ctx, stack, ret, freed, output, results, proc, lexed>>

\* dm_execute_source up to the call of dm_eval_node (1065-1086).  An input
\* is source text; an input that carries a tree stands for an AST handed to
\* the evaluator as it is, which is how the nodes dm_parser_parse never
\* builds (see parse_function, parse_while, get_binary_precedence) get there.
dm_execute_source ==
    /\ mode = "idle"
    /\ run < Len(session)
    /\ LET input == session[run + 1]
           p == IF input.tree = NULL THEN ParseSource(input.text)
                ELSE [err |-> DM_SUCCESS, result |-> input.tree]
       IN  /\ run' = run + 1
           /\ IF p.err # DM_SUCCESS
              THEN /\ results' = Append(results, [err |-> p.err, result |-> NULL])
                   /\ UNCHANGED <<mode, stack>>
              ELSE /\ mode' = "running"
                   /\ stack' = <<dm_eval_node(p.result, run + 1)>>
                   /\ UNCHANGED results
    /\ UNCHANGED <<typed, parsed, session, ctx, ret, freed, output, proc, lexed>>

\* dm_execute_source from line 1088 on: the AST is freed; on success the
\* result is the caller's from here on, or freed where the caller wants none
dm_execute_source_return ==
    /\ mode = "running"
    /\ stack = <<>>
    /\ freed' = freed \cup {run}
    /\ ctx' = IF ret.err = DM_SUCCESS THEN ReleaseResult(ctx, ret.result) ELSE ctx
    /\ results' = Append(results,
                         [err |-> ret.err,
                          result |-> IF ret.err = DM_SUCCESS THEN ret.result ELSE NULL])
    /\ ret' = NULL
    /\ mode' = "idle"
    /\ UNCHANGED <<typed, parsed, session, run, stack, output, proc, lexed>>

(***************************************************************************)
(* The evaluator's arithmetic on a tree of literals (eval_literal, the     *)
(* arithmetic cases of eval_binary, DM_OP_NEG of eval_unary): the number   *)
(* the tree evaluates to, NULL where evaluation reports an error.          *)
(***************************************************************************)
RECURSIVE ArithValue(_)
ArithValue(node) ==
    IF node.type = DM_NODE_LITERAL
    THEN IF node.literal_type = DM_LITERAL_NUMBER THEN node.value ELSE NULL
    ELSE IF node.type = DM_NODE_UNARY_OP
    THEN LET v == ArithValue(node.operand)
         IN  IF v = NULL \/ node.op # DM_OP_NEG THEN NULL ELSE RatNeg(v)
    ELSE IF node.type = DM_NODE_BINARY_OP
    THEN LET l == ArithValue(node.left)
             r == ArithValue(node.right)
         IN  IF l = NULL \/ r = NULL THEN NULL
             ELSE CASE node.op = DM_OP_ADD -> RatAdd(l, r)
                    [] node.op = DM_OP_SUB -> RatSub(l, r)
                    [] node.op = DM_OP_MUL -> RatMul(l, r)
                    [] node.op = DM_OP_DIV -> IF RatIsZero(r) THEN NULL ELSE RatDiv(l, r)
                    [] node.op = DM_OP_MOD -> IF RatIsZero(r) THEN NULL ELSE RatFmod(l, r)
                    [] OTHER -> NULL
    ELSE NULL

(***************************************************************************)
(* ParseSpec: an input line is one of the prepared Lines followed by up to *)
(* MaxTyped further tokens; dm_parser_parse is then applied to it.         *)
(***************************************************************************)
MaxTyped == 3

TypeTokens == {"1", "2", "+", "-", "*", "(", ")", ";"}

Lines ==
    { <<>>,
      <<"1", "+", "2", "*", "3">>,
      <<"(", "1", "+", "2", ")", "*", "3">>,
      <<"-", "2", "*", "3">>,
      <<"10", "-", "4", "-", "3">>,
      <<"8", "/", "4", "%", "3">>,
      <<"x">>,
      <<"x", "*", "2">>,
      <<"add", "(", "3", ",", "7", ")">>,
      <<"x", "=", "1">>,
      <<"let", "x", "=", "42", ";", "x", "*", "2">>,
      <<"function", "add", "(", "a", ",", "b", ")", "{", "return", "a", "+", "b", ";", "}">>,
      <<"function", "f", "(", ")", "{", "}">>,
      <<"function", "id", "(", "a", ")", "a", ";">>,
      <<"while", "(", "1", ")", "{", "}">>,
      <<"while", "(", "x", ")", "x", "=", "0", ";">>,
      <<"if", "(", "1", "<", "2", ")", "{", "\"yes\"", ";", "}", "else", "{", "\"no\"", ";", "}">>,
      <<"if", "(", "1", ")", "{", "\"yes\"", ";", "}">>,
      <<"1", "==", "2">>, <<"1", "!=", "2">>, <<"1", "<", "2">>, <<"1", ">", "2">>,
      <<"1", "<=", "2">>, <<"1", ">=", "2">>, <<"1", "&&", "2">>, <<"1", "||", "2">>,
      <<"1", "<", "2", "+", "3">>,
      <<"1", "||", "2", "&&", "3">>,
      <<"1", "&&", "2", "==", "3">>,
      <<"1", "==", "2", "<", "3">>,
      <<"@">>,
      <<"1", ";", "\"abc">>,
      <<"!=">>,
      <<"1", "+", "!=", "2">> }

Tokens == typed.line \o typed.more

Source == Join(Tokens)

NotParsed == [err |-> "not parsed", result |-> NULL, heap |-> NULL]

Idle ==
    /\ session = <<>> /\ run = 0 /\ ctx = NULL /\ stack = <<>> /\ ret = NULL
    /\ freed = {} /\ output = <<>> /\ results = <<>>
    /\ proc = NULL /\ lexed = NULL

ParseInit ==
    /\ mode = "typing"
    /\ typed \in [line : Lines, more : {<<>>}]
    /\ parsed = NotParsed
    /\ Idle

Type(tok) ==
    /\ mode = "typing"
    /\ Len(typed.more) < MaxTyped
    /\ typed' = [typed EXCEPT !.more = Append(@, tok)]
    /\ UNCHANGED <<mode, parsed, session, run, ctx, stack, ret, freed, output, results, proc, lexed>>

Parse ==
    /\ mode = "typing"
    /\ mode' = "parsed"
    /\ LET r == ParseSource(Source)
       IN  parsed' = [err |-> r.err, result |-> r.result, heap |-> r.parser.heap]
    /\ UNCHANGED <<typed, session, run, ctx, stack, ret, freed, output, results, proc, lexed>>

ParseNext == (\E tok \in TypeTokens : Type(tok)) \/ Parse

ParseSpec == ParseInit /\ [][ParseNext]_vars

(***************************************************************************)
(* The grammar the claims state, read off the token sequence: an additive  *)
(* level of left-associative + and -, above a multiplicative level of      *)
(* left-associative * / %, above prefix -, above literals and parentheses. *)
(***************************************************************************)
NumberValue ==
    "1" :> 1 @@ "2" :> 2 @@ "3" :> 3 @@ "4" :> 4 @@ "7" :> 7 @@ "8" :> 8 @@
    "10" :> 10 @@ "42" :> 42

AdditiveOp == "+" :> DM_OP_ADD @@ "-" :> DM_OP_SUB

MultiplicativeOp == "*" :> DM_OP_MUL @@ "/" :> DM_OP_DIV @@ "%" :> DM_OP_MOD

Ref(ok, node, pos) == [ok |-> ok, node |-> node, pos |-> pos]

TokenAt(toks, i) == IF i <= Len(toks) THEN toks[i] ELSE "<eof>"

RECURSIVE RefAdditive(_, _)
RECURSIVE RefAdditiveRest(_, _, _)
RECURSIVE RefMultiplicative(_, _)
RECURSIVE RefMultiplicativeRest(_, _, _)
RECURSIVE RefUnary(_, _)

RefPrimary(toks, i) ==
    IF TokenAt(toks, i) \in DOMAIN NumberValue
    THEN Ref(TRUE, NumberLiteral(Int2Rat(NumberValue[toks[i]])), i + 1)
    ELSE IF TokenAt(toks, i) = "("
    THEN LET e == RefAdditive(toks, i + 1)
         IN  IF e.ok /\ TokenAt(toks, e.pos) = ")"
             THEN Ref(TRUE, e.node, e.pos + 1)
             ELSE Ref(FALSE, NULL, i)
    ELSE Ref(FALSE, NULL, i)

RefUnary(toks, i) ==
    IF TokenAt(toks, i) = "-"
    THEN LET e == RefUnary(toks, i + 1)
         IN  IF e.ok THEN Ref(TRUE, Unary(DM_OP_NEG, e.node), e.pos)
             ELSE Ref(FALSE, NULL, i)
    ELSE RefPrimary(toks, i)

RefMultiplicativeRest(toks, i, left) ==
    IF TokenAt(toks, i) \in DOMAIN MultiplicativeOp
    THEN LET r == RefUnary(toks, i + 1)
         IN  IF r.ok
             THEN RefMultiplicativeRest(toks, r.pos,
                      Binary(MultiplicativeOp[toks[i]], left, r.node))
             ELSE Ref(FALSE, NULL, i)
    ELSE Ref(TRUE, left, i)

RefMultiplicative(toks, i) ==
    LET l == RefUnary(toks, i)
    IN  IF l.ok THEN RefMultiplicativeRest(toks, l.pos, l.node) ELSE l

RefAdditiveRest(toks, i, left) ==
    IF TokenAt(toks, i) \in DOMAIN AdditiveOp
    THEN LET r == RefMultiplicative(toks, i + 1)
         IN  IF r.ok
             THEN RefAdditiveRest(toks, r.pos, Binary(AdditiveOp[toks[i]], left, r.node))
             ELSE Ref(FALSE, NULL, i)
    ELSE Ref(TRUE, left, i)

RefAdditive(toks, i) ==
    LET l == RefMultiplicative(toks, i)
    IN  IF l.ok THEN RefAdditiveRest(toks, l.pos, l.node) ELSE l

\* toks is `expression ;` for an expression of that grammar
IsArithmeticStatement(toks) ==
    /\ Len(toks) >= 2
    /\ toks[Len(toks)] = ";"
    /\ LET e == RefAdditive(SubSeq(toks, 1, Len(toks) - 1), 1)
       IN  e.ok /\ e.pos = Len(toks)

ArithmeticTree(toks) == RefAdditive(SubSeq(toks, 1, Len(toks) - 1), 1).node

(***************************************************************************)
(* Claims about the parser, checked under ParseSpec.                       *)
(***************************************************************************)
ExampleValues ==
    <<"1", "+", "2", "*", "3", ";">> :> 7 @@
    <<"(", "1", "+", "2", ")", "*", "3", ";">> :> 9 @@
    <<"-", "2", "*", "3", ";">> :> -6 @@
    <<"10", "-", "4", "-", "3", ";">> :> 3

\* C9: for every input `expression ;` whose expression is built from number
\* literals, parentheses, unary - and + - * / %, the parser succeeds and its
\* tree is the one that groups * / % tighter than + -, unary minus tighter
\* than both and equal levels to the left; the four examples of the
\* specification evaluate to 7, 9, -6 and 3.
C9_PrecedenceAndAssociativity ==
    (mode = "parsed" /\ IsArithmeticStatement(Tokens)) =>
        /\ parsed.err = DM_SUCCESS
        /\ parsed.result = Program(<<ArithmeticTree(Tokens)>>)
        /\ Tokens \in DOMAIN ExampleValues =>
               ArithValue(parsed.result.statements[1]) = Int2Rat(ExampleValues[Tokens])

\* an input in which both levels and a left-associative chain meet has been parsed
C9_Witness ==
    /\ mode = "parsed"
    /\ Tokens = <<"10", "-", "4", "-", "3", "*", "2", ";">>
    /\ parsed.err = DM_SUCCESS
    /\ ArithValue(parsed.result.statements[1]) = Int2Rat(0)

\* the tree parse_expression builds for exactly these tokens, NULL if it does not
ExpressionOf(toks) ==
    LET first == consume(dm_parser_init(Join(toks), Len(Join(toks))))
        e == parse_expression(first.parser)
    IN  IF first.err = DM_SUCCESS /\ e.node # NULL
           /\ e.parser.current.type = DM_TOKEN_EOF
        THEN e.node ELSE NULL

\* the tree parse_statement builds for exactly these tokens, NULL if it does not
StatementOf(toks) ==
    LET first == consume(dm_parser_init(Join(toks), Len(Join(toks))))
        st == parse_statement(first.parser)
    IN  IF first.err = DM_SUCCESS /\ st.node # NULL
           /\ st.parser.current.type = DM_TOKEN_EOF
        THEN st.node ELSE NULL

\* tok is lexed as one identifier token
IsIdentifier(tok) ==
    LET t == dm_lexer_next_token(dm_lexer_init(tok, Len(tok)), UninitToken)
    IN  /\ t.err = DM_SUCCESS
        /\ t.token.type = DM_TOKEN_IDENTIFIER
        /\ t.token.length = Len(tok)

\* C6: an input `expression ;` that begins with an identifier not followed by
\* = parses successfully into the statement that is the whole expression, so
\* `x * 2 ;` yields a Binary node and `add ( 3 , 7 ) ;` a Call node.
C6_IdentifierLedExpressionStatement ==
    LET toks == Tokens
        front == SubSeq(toks, 1, Len(toks) - 1)
    IN  (/\ mode = "parsed"
         /\ Len(toks) >= 2
         /\ IsIdentifier(toks[1])
         /\ toks[2] # "="
         /\ toks[Len(toks)] = ";"
         /\ ExpressionOf(front) # NULL)
        => /\ parsed.err = DM_SUCCESS
           /\ parsed.result = Program(<<ExpressionOf(front)>>)
           /\ toks = <<"x", "*", "2", ";">> =>
                  parsed.result.statements[1].type = DM_NODE_BINARY_OP
           /\ toks = <<"add", "(", "3", ",", "7", ")", ";">> =>
                  parsed.result.statements[1].type = DM_NODE_CALL

\* toks is a comma-separated list of identifiers, possibly empty
IsParameterList(toks) ==
    /\ Len(toks) = 0 \/ Len(toks) % 2 = 1
    /\ \A j \in 1..Len(toks) :
           IF j % 2 = 1 THEN IsIdentifier(toks[j]) ELSE toks[j] = ","

ParameterNames(toks) == [j \in 1..((Len(toks) + 1) \div 2) |-> toks[2 * j - 1]]

\* C7: an input `function` identifier `(` identifiers separated by commas `)`
\* statement parses successfully into one FunctionDecl node with that name,
\* those parameter names in order and the parsed statement as body.
C7_FunctionDeclarationAccepted ==
    LET toks == Tokens
    IN  \A k \in 4..Len(toks) :
            LET params == SubSeq(toks, 4, k - 1)
                body == SubSeq(toks, k + 1, Len(toks))
            IN  (/\ mode = "parsed"
                 /\ toks[1] = "function"
                 /\ IsIdentifier(toks[2])
                 /\ toks[3] = "("
                 /\ toks[k] = ")"
                 /\ IsParameterList(params)
                 /\ StatementOf(body) # NULL)
                => /\ parsed.err = DM_SUCCESS
                   /\ parsed.result =
                          Program(<<Function(toks[2], ParameterNames(params),
                                             StatementOf(body))>>)

\* C8: an input `while` `(` expression `)` statement parses successfully into
\* one While node whose condition and body are the parsed expression and the
\* parsed statement.
C8_WhileAccepted ==
    LET toks == Tokens
    IN  \A k \in 4..Len(toks) :
            LET condition == SubSeq(toks, 3, k - 1)
                body == SubSeq(toks, k + 1, Len(toks))
            IN  (/\ mode = "parsed"
                 /\ toks[1] = "while"
                 /\ toks[2] = "("
                 /\ toks[k] = ")"
                 /\ ExpressionOf(condition) # NULL
                 /\ StatementOf(body) # NULL)
                => /\ parsed.err = DM_SUCCESS
                   /\ parsed.result =
                          Program(<<While(ExpressionOf(condition), StatementOf(body))>>)

ComparisonOp ==
    "==" :> DM_OP_EQ @@ "!=" :> DM_OP_NEQ @@ "<" :> DM_OP_LT @@ ">" :> DM_OP_GT @@
    "<=" :> DM_OP_LTE @@ ">=" :> DM_OP_GTE @@ "&&" :> DM_OP_AND @@ "||" :> DM_OP_OR

Num(i) == NumberLiteral(Int2Rat(i))

\* the grouping the claimed order (|| loosest, then &&, equality, relational,
\* additive) gives to the inputs that mix two levels
MixedLevels ==
    <<"1", "<", "2", "+", "3", ";">> :>
        Binary(DM_OP_LT, Num(1), Binary(DM_OP_ADD, Num(2), Num(3))) @@
    <<"1", "||", "2", "&&", "3", ";">> :>
        Binary(DM_OP_OR, Num(1), Binary(DM_OP_AND, Num(2), Num(3))) @@
    <<"1", "&&", "2", "==", "3", ";">> :>
        Binary(DM_OP_AND, Num(1), Binary(DM_OP_EQ, Num(2), Num(3))) @@
    <<"1", "==", "2", "<", "3", ";">> :>
        Binary(DM_OP_EQ, Num(1), Binary(DM_OP_LT, Num(2), Num(3)))

IfExample ==
    <<"if", "(", "1", "<", "2", ")", "{", "\"yes\"", ";", "}",
      "else", "{", "\"no\"", ";", "}">>

\* C10: `1 op 2 ;` parses into the Binary node of op for each of == != < > <=
\* >= && ||, inputs mixing two levels group in the claimed order, and the if
\* statement whose condition is `1 < 2` parses.
C10_ComparisonAndLogicalOperators ==
    mode = "parsed" =>
        /\ \A op \in DOMAIN ComparisonOp :
               Tokens = <<"1", op, "2", ";">> =>
                   /\ parsed.err = DM_SUCCESS
                   /\ parsed.result = Program(<<Binary(ComparisonOp[op], Num(1), Num(2))>>)
        /\ Tokens \in DOMAIN MixedLevels =>
               /\ parsed.err = DM_SUCCESS
               /\ parsed.result = Program(<<MixedLevels[Tokens]>>)
        /\ Tokens = IfExample => parsed.err = DM_SUCCESS

(***************************************************************************)
(* EvalSpec: one interpreter context is given a session, a sequence of     *)
(* inputs, each executed by dm_execute_source.                             *)
(***************************************************************************)
MaxNest == 3

SourceInput(text) == [text |-> text, tree |-> NULL]

TreeInput(text, statements) == [text |-> text, tree |-> Program(statements)]

Let(name, value) == Assignment(name, value, TRUE)

Set(name, value) == Assignment(name, value, FALSE)

\* d blocks inside one another, each declaring its own x and reading x
\* again after the block inside it
RECURSIVE NestedBlocks(_)
NestedBlocks(d) ==
    IF d = 0 THEN "x;"
    ELSE "{ let x = " \o NatToString(d) \o "; " \o NestedBlocks(d - 1) \o " x; }"

FibBody ==
    Block(<<If(Binary(DM_OP_LTE, Variable("n"), Num(1)),
               Block(<<Return(Variable("n"))>>), NULL),
            Return(Binary(DM_OP_ADD,
                          Call("fib", <<Binary(DM_OP_SUB, Variable("n"), Num(1))>>),
                          Call("fib", <<Binary(DM_OP_SUB, Variable("n"), Num(2))>>)))>>)

LoopExample ==
    TreeInput("let i = 0; let s = 0; while (i < 5) { s = s + i; i = i + 1; } s;",
         <<Let("i", Num(0)), Let("s", Num(0)),
           While(Binary(DM_OP_LT, Variable("i"), Num(5)),
                 Block(<<Set("s", Binary(DM_OP_ADD, Variable("s"), Variable("i"))),
                         Set("i", Binary(DM_OP_ADD, Variable("i"), Num(1)))>>)),
           Variable("s")>>)

Sessions ==
    { <<TreeInput("false && u;",
             <<Binary(DM_OP_AND, BooleanLiteral(FALSE), Variable("u"))>>)>>,
      <<TreeInput("function f() { return 7; } true || f();",
             <<Function("f", <<>>, Block(<<Return(Num(7))>>)),
               Binary(DM_OP_OR, BooleanLiteral(TRUE), Call("f", <<>>))>>)>>,
      <<TreeInput("true && !false;",
             <<Binary(DM_OP_AND, BooleanLiteral(TRUE),
                      Unary(DM_OP_NOT, BooleanLiteral(FALSE)))>>)>>,
      <<TreeInput("function f() { return 1; 2; } f();",
             <<Function("f", <<>>, Block(<<Return(Num(1)), Num(2)>>)),
               Call("f", <<>>)>>)>>,
      <<TreeInput("function add(a, b) { return a + b; } add(3, 7);",
             <<Function("add", <<"a", "b">>,
                        Block(<<Return(Binary(DM_OP_ADD, Variable("a"), Variable("b")))>>)),
               Call("add", <<Num(3), Num(7)>>)>>)>>,
      <<TreeInput("function fib(n) { if (n <= 1) { return n; } return fib(n-1) + fib(n-2); } fib(1);",
             <<Function("fib", <<"n">>, FibBody), Call("fib", <<Num(1)>>)>>)>>,
      <<TreeInput("function f() { return 1; }",
             <<Function("f", <<>>, Block(<<Return(Num(1))>>))>>),
        SourceInput("let y = f();")>>,
      <<SourceInput("let x = 42;"), SourceInput("x;"), SourceInput("x = x + 1;")>>,
      <<SourceInput("let x = 1; { let x = 2; x; } x;")>>,
      <<SourceInput("let x = 1; { x = 2; let y = 3; } x; y;")>>,
      <<SourceInput("if (1) { \"yes\"; } else { \"no\"; }"), SourceInput("if (0) 1; -2 * 3;")>>,
      <<TreeInput("let i = 0; while (i < 2) i = i + 1; i;",
             <<Let("i", Num(0)),
               While(Binary(DM_OP_LT, Variable("i"), Num(2)),
                     Set("i", Binary(DM_OP_ADD, Variable("i"), Num(1)))),
               Variable("i")>>)>>,
      <<LoopExample>>,
      <<SourceInput("6 / 2; 1 / 0; 3;")>>,
      <<TreeInput("function f(a) { return a; } f();",
             <<Function("f", <<"a">>, Block(<<Return(Variable("a"))>>)),
               Call("f", <<>>)>>)>>,
      <<TreeInput("function g(a) { return a; }",
             <<Function("g", <<"a">>, Block(<<Return(Variable("a"))>>))>>),
        SourceInput("let y = g(1, 2);")>>,
      <<TreeInput("function h(a) { { return a / 0; } } h(1 / 0); h(1);",
             <<Function("h", <<"a">>,
                        Block(<<Block(<<Return(Binary(DM_OP_DIV, Variable("a"), Num(0)))>>)>>)),
               Call("h", <<Binary(DM_OP_DIV, Num(1), Num(0))>>)>>),
        TreeInput("{ h(1); }", <<Block(<<Call("h", <<Num(1)>>)>>)>>)>>,
      <<SourceInput("let a = 1; { let b = 2; { 1 / 0; } } a;"), SourceInput("a;")>>,
      <<TreeInput("let v = 1; let a = 1; function f(a, b) { return v; } { let v = 2; f(5, a); }",
                  <<Let("v", Num(1)), Let("a", Num(1)),
                    Function("f", <<"a", "b">>, Block(<<Return(Variable("v"))>>)),
                    Block(<<Let("v", Num(2)),
                            Call("f", <<Num(5), Variable("a")>>)>>)>>)>>,
      <<SourceInput("let p = 1; { q = 2; }"), SourceInput("q;")>>,
      <<SourceInput("\"Hello, \" + \"world!\";")>>,
      <<SourceInput("let z = 0; 7 % z; z;"), SourceInput("z;")>> }
    \cup { <<SourceInput("let x = 0; " \o NestedBlocks(d))>> : d \in 1..MaxNest }

EvalInit ==
    /\ mode = "idle"
    /\ session \in Sessions
    /\ run = 0
    /\ ctx = dm_context_create
    /\ stack = <<>>
    /\ ret = NULL
    /\ freed = {}
    /\ output = <<>>
    /\ results = <<>>
    /\ typed = [line |-> <<>>, more |-> <<>>]
    /\ parsed = NotParsed
    /\ proc = NULL
    /\ lexed = NULL

\* a step of the evaluator on the input it has been given
EvalStep ==
    \/ dm_execute_source_return
    \/ EvalProgram
    \/ EvalLiteral
    \/ EvalVariable
    \/ EvalUnary
    \/ EvalBinary
    \/ EvalAssignment
    \/ EvalBlock
    \/ EvalIf
    \/ EvalWhile
    \/ EvalFunctionCall
    \/ EvalFunctionDeclaration
    \/ EvalReturn
    \/ ReadFreedNode

EvalNext == dm_execute_source \/ EvalStep

EvalSpec == EvalInit /\ [][EvalNext]_vars

\* the evaluator is one sequential C program: while it can take a step it
\* does; when the next input is given is up to the caller
EvalFairSpec == EvalSpec /\ WF_vars(EvalStep)

Finished == mode = "idle" /\ run = Len(session)


(***************************************************************************)
(* Properties of the evaluator.                                            *)
(***************************************************************************)
\* the frames of eval_block calls in progress
OpenBlocks == {k \in 1..Len(stack) : stack[k].fn = "eval_block"}

\* C1: when the left operand of && is false, or the left operand of || is
\* true, the right operand is never evaluated: no eval_binary call is ever
\* waiting for the right operand of such an operator.
C1_ShortCircuit ==
    \A k \in 1..Len(stack) :
        (/\ stack[k].fn = "eval_binary"
         /\ stack[k].pc = "right"
         /\ stack[k].node.op \in {DM_OP_AND, DM_OP_OR})
        => ~LeftDetermines(stack[k].node.op, stack[k].saved)

\* C2: a Return ends the function activation it is in: once a Return of the
\* body has produced its value no further node of that activation is
\* evaluated, and the value of the call is the value returned.
C2_ReturnEndsActivation ==
    /\ (mode = "running" /\ stack # <<>> /\ Top.pc = "enter")
       => \A k \in Activation(Rest) : Rest[k].ghost = NULL
    /\ (ret # NULL /\ ret.from = "eval_function_call" /\ ret.err = DM_SUCCESS
        /\ ret.ghost # NULL)
       => ret.result = ret.ghost

C4_BlockScope ==
    (ret # NULL /\ ret.from = "eval_block")
    => /\ Visible(ctx, ctx.current_scope) = ret.ghost.before
       /\ ret.ghost.scope \notin DOMAIN ctx.scopes

\* the innermost of MaxNest blocks has just ended; inside it x shadowed the
\* x of the block around it
C4_Witness ==
    /\ ret # NULL /\ ret.from = "eval_block" /\ ret.err = DM_SUCCESS
    /\ Cardinality(OpenBlocks) = MaxNest - 1
    /\ "x" \in DOMAIN ret.ghost.before
    /\ ret.ghost.inside["x"] = FloatValue(Int2Rat(1))
    /\ ret.ghost.before["x"] # ret.ghost.inside["x"]
    /\ Visible(ctx, ctx.current_scope)["x"] = ret.ghost.before["x"]

\* C5: the loop example terminates, and its last statement yields 10:
\* once the evaluator has been given the loop example it comes back with
\* the value 10, unless the process has faulted.
C5_LoopYieldsTen ==
    (session = <<LoopExample>> /\ mode = "running")
    ~> \/ mode = "crashed"
       \/ Finished /\ results = <<[err |-> DM_SUCCESS, result |-> Num(10)]>>


\* C11: dm_parser_parse returns DM_SUCCESS exactly when it hands a tree to
\* its caller, and that tree is a Program; otherwise it returns
\* DM_ERROR_SYNTAX_ERROR and the caller's tree pointer is still NULL.
C11_SuccessIffTree ==
    mode = "parsed"
    => /\ parsed.err \in {DM_SUCCESS, DM_ERROR_SYNTAX_ERROR}
       /\ parsed.err = DM_SUCCESS <=> parsed.result # NULL
       /\ parsed.err = DM_SUCCESS => parsed.result.type = DM_NODE_PROGRAM

\* a line whose first statement parses and whose second stops the lexer:
\* the statement already built is not handed over
C11_Witness ==
    /\ mode = "parsed"
    /\ typed.line = <<"1", ";", "\"abc">>
    /\ parsed.err = DM_ERROR_SYNTAX_ERROR
    /\ parsed.result = NULL


\* eval_binary has applied / or % to two numeric operand results of which
\* the right one is zero
DividedByZero ==
    /\ ret # NULL /\ ret.from = "eval_binary" /\ ret.ghost # NULL
    /\ ret.ghost.op \in {DM_OP_DIV, DM_OP_MOD}
    /\ ret.ghost.left.type = DM_NODE_LITERAL /\ IsNumeric(ret.ghost.left)
    /\ ret.ghost.right.type = DM_NODE_LITERAL /\ IsNumeric(ret.ghost.right)
    /\ RatIsZero(AsNumber(ret.ghost.right))

\* C12: a Binary / or % whose right operand evaluates to zero returns
\* DM_ERROR_DIVISION_BY_ZERO and no result; every enclosing call returns
\* that error without writing to the output, so the statement gets no
\* `=>` line, and dm_execute_source returns the error and no result.
C12_DivisionByZero ==
    /\ [](DividedByZero
          => ret.err = DM_ERROR_DIVISION_BY_ZERO /\ ret.result = NULL)
    /\ [][(mode = "running" /\ ret # NULL /\ ret.err = DM_ERROR_DIVISION_BY_ZERO)
          => /\ output' = output
             /\ stack # <<>> /\ mode' = "running"
                    => ret' # NULL /\ ret'.err = DM_ERROR_DIVISION_BY_ZERO
             /\ stack = <<>>
                    => results' = Append(results, [err |-> DM_ERROR_DIVISION_BY_ZERO,
                                                   result |-> NULL])]_vars

\* `6 / 2; 1 / 0; 3;` has run: one line for the first statement, none for
\* the second, and the third was never evaluated
C12_Witness ==
    /\ session = <<SourceInput("6 / 2; 1 / 0; 3;")>>
    /\ Finished
    /\ results = <<[err |-> DM_ERROR_DIVISION_BY_ZERO, result |-> NULL]>>
    /\ output = <<"=> 3.000000">>


(***************************************************************************)
(* The process: main (src/src/main.c) and the shell (src/src/shell).  The  *)
(* C calls in progress above the evaluator are the frames of proc.calls;   *)
(* proc.ret is what the last finished call returned.  A write to           *)
(* ctx->error is kept as the format and the error code handed to           *)
(* dm_error_string.                                                        *)
(***************************************************************************)
DM_KERNEL_VERSION_MAJOR == 0
DM_KERNEL_VERSION_MINOR == 1
DM_KERNEL_VERSION_PATCH == 0

SHELL_MAX_COMMAND_ARGS == 64

Version ==
    NatToString(DM_KERNEL_VERSION_MAJOR) \o "." \o NatToString(DM_KERNEL_VERSION_MINOR)
    \o "." \o NatToString(DM_KERNEL_VERSION_PATCH)

print_banner ==
    <<"", "----------------------------------------",
      "  DMKernel - Data Mining Runtime v" \o Version,
      "  Copyright (C) 2025 DMKernel Team.", "  All right reserved.",
      "----------------------------------------", "">>

\* parse_args(argc, argv, &script_file); argv here is argv[1..argc-1]
RECURSIVE parse_args(_, _)
parse_args(argv, script_file) ==
    IF argv = <<>> THEN [result |-> 2, script_file |-> script_file]
    ELSE IF CharAt(argv[1], 0) = "-"
    THEN IF argv[1] \in {"--help", "-h", "--version", "-v"}
         THEN [result |-> 0, script_file |-> script_file]
         ELSE [result |-> 1, script_file |-> script_file]
    ELSE parse_args(Tail(argv), argv[1])

\* the inner loop of split_args (141-161): the argument that starts here,
\* quotes removed, and what is left of the line after it
RECURSIVE ScanArgument(_, _, _, _)
ScanArgument(rest, arg, in_quotes, quote_char) ==
    LET c == CharAt(rest, 0)
    IN  IF c = "" \/ (isspace(c) /\ ~in_quotes)
        THEN [arg |-> arg, rest |-> rest, in_quotes |-> in_quotes,
              quote_char |-> quote_char]
        ELSE IF c \in {"'", "\""} /\ ~in_quotes
        THEN ScanArgument(CStr(rest, 1), arg, TRUE, c)
        ELSE IF c \in {"'", "\""} /\ c = quote_char
        THEN ScanArgument(CStr(rest, 1), arg, FALSE, quote_char)
        ELSE ScanArgument(CStr(rest, 1), arg \o c, in_quotes, quote_char)

RECURSIVE SplitArguments(_, _, _, _, _)
SplitArguments(line, argv, max_args, in_quotes, quote_char) ==
    IF line = "" \/ Len(argv) >= max_args THEN argv
    ELSE IF isspace(CharAt(line, 0))
    THEN SplitArguments(CStr(line, 1), argv, max_args, in_quotes, quote_char)
    ELSE LET Next(a) ==
                 IF a.rest = "" THEN Append(argv, a.arg)
                 ELSE SplitArguments(CStr(a.rest, 1), Append(argv, a.arg), max_args,
                                     a.in_quotes, a.quote_char)
         IN  Next(ScanArgument(line, "", in_quotes, quote_char))

split_args(line, max_args) == SplitArguments(line, <<>>, max_args, FALSE, "")

\* the commands dm_shell_create registers, with their handlers
Commands ==
    [help |-> "dm_cmd_help", exit |-> "dm_cmd_exit", version |-> "dm_cmd_version",
     exec |-> "dm_cmd_exec", ls |-> "dm_cmd_ls", cd |-> "dm_cmd_cd",
     pwd |-> "dm_cmd_pwd", cat |-> "dm_cmd_cat", mkdir |-> "dm_cmd_mkdir",
     rm |-> "dm_cmd_rm", parse |-> "dm_cmd_parse", compile |-> "dm_cmd_compile",
     run |-> "dm_cmd_run_script"]

find_command(name) == IF name \in DOMAIN Commands THEN Commands[name] ELSE ""

\* the files there are to read, by name, with their text
Files ==
    [n \in {"ok.dm", "bad.dm", "div.dm"} |->
        CASE n = "ok.dm" -> "let x = 42; x;"
          [] n = "bad.dm" -> "1 +;"
          [] n = "div.dm" -> "1 / 0;"]

Frame(fn, arg) == [fn |-> fn, pc |-> "enter", arg |-> arg, mark |-> 0]

PTop == proc.calls[Len(proc.calls)]

PRest == SubSeq(proc.calls, 1, Len(proc.calls) - 1)

\* the call `fn` is the innermost one and the evaluator is not at work
In(fn) ==
    /\ mode = "idle" /\ Len(results) = Len(session)
    /\ ~proc.exited /\ proc.calls # <<>> /\ PTop.fn = fn

PCall(p, self, callee) ==
    [p EXCEPT !.calls = Append(Append(PRest, self), callee), !.ret = NULL]

PReturn(p, err) == [p EXCEPT !.calls = PRest, !.ret = [err |-> err]]

\* fprintf(ctx->error, format, arg)
WriteError(p, format, arg) == [p EXCEPT !.stderr = Append(@, <<format, arg>>)]

Evaluator == <<mode, run, stack, ret, freed, results>>

\* main (239-293): up to the call of dm_execute_file or dm_shell_run, and
\* from its return on
main ==
    /\ In("main")
    /\ IF PTop.pc = "enter"
       THEN LET a == parse_args(proc.argv, "")
            IN  IF a.result <= 1
                THEN /\ proc' = [proc EXCEPT !.exited = TRUE, !.status = a.result]
                     /\ UNCHANGED <<ctx, output>>
                ELSE \* dm_init, print_banner
                     /\ ctx' = [dm_context_create EXCEPT !.interactive = proc.tty]
                     /\ output' = output \o print_banner
                     /\ proc' = PCall(proc, [PTop EXCEPT !.pc = "called"],
                                      IF a.script_file # ""
                                      THEN Frame("dm_execute_file", a.script_file)
                                      ELSE Frame("dm_shell_run", ""))
       ELSE \* exit_code = 1 on an error, and then exit_code = g_ctx->exit_code
            /\ proc' = [(IF proc.ret.err # DM_SUCCESS
                         THEN WriteError(proc,
                                         IF parse_args(proc.argv, "").script_file # ""
                                         THEN "Error executing script: %s"
                                         ELSE "Shell error: %s",
                                         proc.ret.err)
                         ELSE proc)
                        EXCEPT !.exited = TRUE, !.status = ctx.exit_code]
            /\ UNCHANGED <<ctx, output>>
    /\ UNCHANGED <<typed, parsed, session, lexed>>
    /\ UNCHANGED Evaluator


\* dm_execute_file (127-184); the file system answers from Files
dm_execute_file ==
    /\ In("dm_execute_file")
    /\ proc' = IF PTop.pc = "enter"
               THEN IF PTop.arg \notin DOMAIN Files
                    THEN PReturn(WriteError(proc, "File not found: %s", PTop.arg),
                                 DM_ERROR_FILE_IO)
                    ELSE PCall(proc, [PTop EXCEPT !.pc = "called"],
                               Frame("dm_execute", Files[PTop.arg]))
               ELSE PReturn(proc, proc.ret.err)
    /\ UNCHANGED <<typed, parsed, session, ctx, output, lexed>>
    /\ UNCHANGED Evaluator

\* dm_execute (95-124): it hands the code to dm_execute_source, and when
\* that has returned writes the result once more if the terminal is
\* interactive.  proc.last is history: the code, what dm_execute returned
\* and what was written to ctx->output meanwhile.
dm_execute ==
    /\ In("dm_execute")
    /\ IF PTop.pc = "enter"
       THEN /\ session' = Append(session, SourceInput(PTop.arg))
            /\ proc' = [proc EXCEPT
                           !.calls = Append(PRest, [PTop EXCEPT !.pc = "source",
                                                                !.mark = Len(output)])]
            /\ UNCHANGED output
       ELSE LET r == results[Len(results)]
                Done(p, out) ==
                    /\ output' = out
                    /\ proc' = [PReturn(p, r.err) EXCEPT
                                   !.last = [code |-> PTop.arg, err |-> r.err,
                                             written |-> SubSeq(out, PTop.mark + 1, Len(out))]]
            IN  /\ IF r.err # DM_SUCCESS
                   THEN Done(WriteError(proc, "Execution error: %s", r.err), output)
                   ELSE IF r.result # NULL /\ ctx.interactive
                   THEN Done(proc, Append(output, "=> " \o dm_node_to_string(r.result)))
                   ELSE Done(proc, output)
                /\ UNCHANGED session
    /\ UNCHANGED <<typed, parsed, ctx, lexed>>
    /\ UNCHANGED Evaluator

\* a dm_shell_run that leaves its loop when a line has failed
dm_shell_run_until_error ==
    /\ In("dm_shell_run")
    /\ IF PTop.pc = "enter"
       THEN IF ~ctx.running
            THEN proc' = PReturn(proc, DM_SUCCESS) /\ UNCHANGED output
            ELSE LET prompt == IF proc.tty THEN <<"dmkernel> ">> ELSE <<>>
                 IN  IF proc.stdin = <<>>
                     THEN /\ output' = output \o prompt \o (IF proc.tty THEN <<"">> ELSE <<>>)
                          /\ proc' = PReturn(proc, DM_SUCCESS)
                     ELSE /\ output' = output \o prompt
                          /\ proc' = IF Head(proc.stdin) = ""
                                     THEN [proc EXCEPT !.stdin = Tail(@)]
                                     ELSE PCall([proc EXCEPT !.stdin = Tail(@)],
                                                [PTop EXCEPT !.pc = "executed",
                                                             !.arg = Head(proc.stdin)],
                                                Frame("dm_shell_execute", Head(proc.stdin)))
       ELSE LET error == proc.ret.err
                p == IF error \notin {DM_SUCCESS, DM_ERROR_INVALID_ARGUMENT}
                     THEN WriteError(proc, "Error: %s", "Failed to execute command")
                     ELSE proc
            IN  /\ proc' = [p EXCEPT
                               !.calls = IF error # DM_SUCCESS THEN PRest
                                         ELSE Append(PRest, [PTop EXCEPT !.pc = "enter"]),
                               !.ret = IF error # DM_SUCCESS THEN [err |-> error]
                                       ELSE NULL,
                               !.lines = Append(@, [line |-> PTop.arg, err |-> error,
                                                    inputs |-> Len(session)])]
                /\ UNCHANGED output
    /\ UNCHANGED <<typed, parsed, session, ctx, lexed>>
    /\ UNCHANGED Evaluator

\* dm_shell_run (183-227).  A line of stdin is its text without the newline
\* fgets leaves at its end.  proc.lines is history: the lines executed so
\* far with what dm_shell_execute returned for each and how many inputs the
\* evaluator had been given by then.
dm_shell_run ==
    /\ In("dm_shell_run")
    /\ IF PTop.pc = "enter"
       THEN IF ~ctx.running
            THEN proc' = PReturn(proc, DM_SUCCESS) /\ UNCHANGED output
            ELSE LET prompt == IF proc.tty THEN <<"dmkernel> ">> ELSE <<>>
                 IN  IF proc.stdin = <<>>
                     THEN /\ output' = output \o prompt \o (IF proc.tty THEN <<"">> ELSE <<>>)
                          /\ proc' = PReturn(proc, DM_SUCCESS)
                     ELSE /\ output' = output \o prompt
                          /\ proc' = IF Head(proc.stdin) = ""
                                     THEN [proc EXCEPT !.stdin = Tail(@)]
                                     ELSE PCall([proc EXCEPT !.stdin = Tail(@)],
                                                [PTop EXCEPT !.pc = "executed",
                                                             !.arg = Head(proc.stdin)],
                                                Frame("dm_shell_execute", Head(proc.stdin)))
       ELSE LET error == proc.ret.err
                p == IF error \notin {DM_SUCCESS, DM_ERROR_INVALID_ARGUMENT}
                     THEN WriteError(proc, "Error: %s", "Failed to execute command")
                     ELSE proc
            IN  /\ proc' = [p EXCEPT
                               !.calls = Append(PRest, [PTop EXCEPT !.pc = "enter"]),
                               !.ret = NULL,
                               !.lines = Append(@, [line |-> PTop.arg, err |-> error,
                                                    inputs |-> Len(session)])]
                /\ UNCHANGED output
    /\ UNCHANGED <<typed, parsed, session, ctx, lexed>>
    /\ UNCHANGED Evaluator

\* dm_shell_execute (229-268)
dm_shell_execute ==
    /\ In("dm_shell_execute")
    /\ proc' = IF PTop.pc = "enter"
               THEN LET argv == split_args(PTop.arg, SHELL_MAX_COMMAND_ARGS)
                    IN  IF Len(argv) = 0 THEN PReturn(proc, DM_SUCCESS)
                        ELSE IF find_command(argv[1]) = ""
                        THEN PReturn(WriteError(proc, "Unknown command: %s", argv[1]),
                                     DM_ERROR_INVALID_ARGUMENT)
                        ELSE PCall(proc, [PTop EXCEPT !.pc = "called"],
                                   Frame(find_command(argv[1]), argv))
               ELSE PReturn(proc, proc.ret.err)
    /\ UNCHANGED <<typed, parsed, session, ctx, output, lexed>>
    /\ UNCHANGED Evaluator

\* dm_cmd_exit (291-300)
dm_cmd_exit ==
    /\ In("dm_cmd_exit")
    /\ ctx' = [ctx EXCEPT !.running = FALSE]
    /\ proc' = PReturn(proc, DM_SUCCESS)
    /\ UNCHANGED <<typed, parsed, session, output, lexed>>
    /\ UNCHANGED Evaluator

\* dm_cmd_exec (317-342)
dm_cmd_exec ==
    /\ In("dm_cmd_exec")
    /\ IF PTop.pc = "enter"
       THEN IF Len(PTop.arg) < 2
            THEN proc' = PReturn(proc, DM_ERROR_INVALID_ARGUMENT) /\ UNCHANGED output
            ELSE /\ output' = Append(output, "Executing: " \o Join(Tail(PTop.arg)))
                 /\ proc' = PCall(proc, [PTop EXCEPT !.pc = "called"],
                                  Frame("dm_execute", Join(Tail(PTop.arg))))
       ELSE /\ proc' = IF proc.ret.err # DM_SUCCESS
                       THEN PReturn(WriteError(proc, "Error executing code: %s", proc.ret.err),
                                    proc.ret.err)
                       ELSE PReturn(proc, DM_SUCCESS)
            /\ UNCHANGED output
    /\ UNCHANGED <<typed, parsed, session, ctx, lexed>>
    /\ UNCHANGED Evaluator

\* dm_cmd_run_script (src/src/shell/lang_commands.c 216-232)
dm_cmd_run_script ==
    /\ In("dm_cmd_run_script")
    /\ proc' = IF PTop.pc = "enter"
               THEN IF Len(PTop.arg) < 2
                    THEN PReturn(WriteError(proc, "Usage: run <file>", ""),
                                 DM_ERROR_INVALID_ARGUMENT)
                    ELSE PCall(proc, [PTop EXCEPT !.pc = "called"],
                               Frame("dm_execute_file", PTop.arg[2]))
               ELSE IF proc.ret.err # DM_SUCCESS
               THEN PReturn(WriteError(proc, "Error executing file: %s", proc.ret.err),
                            proc.ret.err)
               ELSE PReturn(proc, DM_SUCCESS)
    /\ UNCHANGED <<typed, parsed, session, ctx, output, lexed>>
    /\ UNCHANGED Evaluator

(***************************************************************************)
(* ShellSpec: the interpreter is started with a command line, on a         *)
(* terminal or not, and reads the lines of its standard input.  The lines  *)
(* use the commands exit, exec and run; the code they and the files hold   *)
(* is made of literals, variables, binary operators and assignments, the   *)
(* statements dm_parser_parse has a tree for.                              *)
(***************************************************************************)
MaxLines == 2

ReplLines ==
    {"", "10 + 5;", "exec 10 + 5;", "exec let x = 42; x * 2;", "exec let x = 42;",
     "exec 1 / 0;", "exec", "exit", "run none.dm", "run ok.dm", "run"}

CommandLines ==
    {<<>>, <<"ok.dm">>, <<"bad.dm">>, <<"div.dm">>, <<"none.dm">>, <<"-h">>, <<"-x">>}

RECURSIVE Inputs(_)
Inputs(n) ==
    IF n = 0 THEN {<<>>}
    ELSE Inputs(n - 1) \cup {Append(t, l) : t \in Inputs(n - 1), l \in ReplLines}

ShellInit ==
    /\ mode = "idle"
    /\ \E argv \in CommandLines, tty \in BOOLEAN :
       \E stdin \in IF argv = <<>> THEN Inputs(MaxLines) ELSE {<<>>} :
           proc = [argv |-> argv, tty |-> tty, stdin |-> stdin,
                   calls |-> <<Frame("main", argv)>>, ret |-> NULL, stderr |-> <<>>,
                   exited |-> FALSE, status |-> 0, last |-> NULL, lines |-> <<>>]
    /\ session = <<>> /\ run = 0 /\ ctx = NULL /\ stack = <<>> /\ ret = NULL
    /\ freed = {} /\ output = <<>> /\ results = <<>>
    /\ typed = [line |-> <<>>, more |-> <<>>]
    /\ parsed = NotParsed
    /\ lexed = NULL

ShellNext ==
    \/ main
    \/ dm_execute_file
    \/ dm_execute
    \/ dm_shell_run
    \/ dm_shell_execute
    \/ dm_cmd_exit
    \/ dm_cmd_exec
    \/ dm_cmd_run_script
    \/ dm_execute_source
    \/ dm_execute_source_return
    \/ EvalProgram
    \/ EvalLiteral
    \/ EvalVariable
    \/ EvalBinary
    \/ EvalAssignment

ShellSpec == ShellInit /\ [][ShellNext]_vars


(***************************************************************************)
(* Properties of the process.                                              *)
(***************************************************************************)
IsResultLine(line) == Len(line) >= 3 /\ SubSeq(line, 1, 3) = "=> "

\* the top-level statements of a program text that are neither an
\* assignment nor a function declaration
PrintedStatements(code) ==
    SelectSeq(ParseSource(code).result.statements,
              LAMBDA st : st.type \notin {DM_NODE_ASSIGNMENT, DM_NODE_FUNCTION})

\* C13: on an interactive terminal a dm_execute that succeeds has written
\* exactly one `=> <value>` line for each top-level statement that is not
\* an assignment or a function declaration: `10 + 5;` gives the single line
\* `=> 15.000000`, an assignment alone gives none.
C13_OneLinePerStatement ==
    (proc.last # NULL /\ ctx.interactive /\ proc.last.err = DM_SUCCESS)
    => /\ Len(SelectSeq(proc.last.written, IsResultLine))
              = Len(PrintedStatements(proc.last.code))
       /\ proc.last.code = "10 + 5;"
              => SelectSeq(proc.last.written, IsResultLine) = <<"=> 15.000000">>

\* the script the command line names, "" if it names none
ScriptFile == parse_args(proc.argv, "").script_file

\* C14: started with a script path, the process exits with code 0 if the
\* script was read, parsed and evaluated without error, and with another
\* code if the file is missing or parsing or evaluation fails.
C14_ExitCode ==
    (proc.exited /\ parse_args(proc.argv, "").result = 2 /\ ScriptFile # "")
    => (proc.status = 0
        <=> /\ ScriptFile \in DOMAIN Files
            /\ Len(results) = 1 /\ results[1].err = DM_SUCCESS)

\* C15: a non-empty line the REPL loop has read that is not a shell command
\* has been given to the evaluator as a program: dm_execute_source has run
\* on the text of the line.
C15_LineIsEvaluated ==
    \A k \in DOMAIN proc.lines :
        LET l == proc.lines[k]
            before == IF k = 1 THEN 0 ELSE proc.lines[k - 1].inputs
        IN  find_command(split_args(l.line, SHELL_MAX_COMMAND_ARGS)[1]) = ""
            => /\ l.inputs = before + 1
               /\ session[l.inputs].text = l.line

\* dm_shell_run has dm_shell_execute's answer for a line at hand
LineExecuted == In("dm_shell_run") /\ PTop.pc = "executed"

AtPrompt == In("dm_shell_run") /\ PTop.pc = "enter"

\* C16: when the execution of a REPL line has returned an error
\* ctx->running is still true and the loop goes on to its next round, where
\* a line that stdin still holds is read and executed; the loop ends only
\* at the end of input or when ctx->running is false, and only the command
\* exit makes it false.
C16_LoopSurvivesErrors ==
    /\ [](LineExecuted /\ proc.ret.err # DM_SUCCESS => ctx.running)
    /\ [][LineExecuted /\ proc.ret.err # DM_SUCCESS
          => AtPrompt' /\ ctx'.running /\ proc'.stdin = proc.stdin]_vars
    /\ [][AtPrompt /\ ctx.running /\ proc.stdin # <<>> /\ Head(proc.stdin) # ""
          => /\ proc'.calls = Append(Append(PRest, [PTop EXCEPT !.pc = "executed",
                                                            !.arg = Head(proc.stdin)]),
                                     Frame("dm_shell_execute", Head(proc.stdin)))
             /\ proc'.stdin = Tail(proc.stdin)]_vars
    /\ [][AtPrompt /\ Len(proc'.calls) < Len(proc.calls)
          => proc.stdin = <<>> \/ ~ctx.running]_vars
    /\ [][ctx # NULL /\ ctx.running /\ ~ctx'.running => In("dm_cmd_exit")]_vars

\* a line was rejected, a later line divided by zero, and the loop is at its
\* prompt again
C16_Witness ==
    /\ AtPrompt /\ ctx.running
    /\ Len(proc.lines) = 2
    /\ proc.lines[1].line = "10 + 5;" /\ proc.lines[1].err = DM_ERROR_INVALID_ARGUMENT
    /\ proc.lines[2].line = "exec 1 / 0;" /\ proc.lines[2].err = DM_ERROR_DIVISION_BY_ZERO


C19_StringConcatenation ==
    (ret # NULL /\ ret.from = "eval_binary" /\ ret.ghost # NULL
     /\ ret.ghost.op = DM_OP_ADD
     /\ ret.ghost.left.type = DM_NODE_LITERAL
     /\ ret.ghost.left.literal_type = DM_LITERAL_STRING
     /\ ret.ghost.right.type = DM_NODE_LITERAL
     /\ ret.ghost.right.literal_type = DM_LITERAL_STRING)
    => /\ ret.err = DM_SUCCESS
       /\ ret.result = StringLiteral(ret.ghost.left.value \o ret.ghost.right.value)

\* the eval_block and eval_function_call frames that own a scope
ScopeOwners == {k \in 1..Len(stack) : stack[k].own_scope # NoScope}

\* the frames whose scope is the current one while they wait for a child
ScopeSetters ==
    {k \in ScopeOwners :
        \/ stack[k].fn = "eval_block"
        \/ stack[k].fn = "eval_function_call" /\ stack[k].pc = "body"}

\* ctx->current_scope as the calls in progress determine it
ScopeInForce ==
    IF ScopeSetters = {} THEN ctx.global_scope
    ELSE stack[CHOOSE k \in ScopeSetters : \A j \in ScopeSetters : j <= k].own_scope

\* C20: at every moment the current scope is the scope of the innermost
\* block or function body in progress and the live scopes are the global
\* scope and one scope per block or call in progress; so when a Block or a
\* Call returns, with or without an error, the current scope is again what
\* it was at entry and the scope made for it is gone, and between two
\* top-level programs the global scope is the current and only scope.
C20_ScopeDiscipline ==
    mode \in {"idle", "running"}
    => /\ ctx.current_scope = ScopeInForce
       /\ DOMAIN ctx.scopes = {ctx.global_scope} \cup {stack[k].own_scope : k \in ScopeOwners}
       /\ \A j, k \in ScopeOwners : stack[j].own_scope = stack[k].own_scope => j = k
       /\ mode = "idle" => ctx.current_scope = ctx.global_scope

\* a function body inside a block has failed two blocks down: the call has
\* returned the error, the block around the call is still open
C20_Witness ==
    /\ ret # NULL /\ ret.from = "eval_function_call"
    /\ ret.err = DM_ERROR_DIVISION_BY_ZERO
    /\ Cardinality(ScopeOwners) = 1
    /\ ctx.current_scope # ctx.global_scope
    /\ Cardinality(DOMAIN ctx.scopes) = 2


(***************************************************************************)
(* LexSpec: the lexer is given a text and asked for its tokens one after   *)
(* the other, until it returns end of input or an error.                   *)
(***************************************************************************)
MaxText == 4

LexChars == {"\"", "'", "\\", "a", " ", "\n", "/", "*"}

RECURSIVE Texts(_)
Texts(n) ==
    IF n = 0 THEN {""}
    ELSE Texts(n - 1) \cup {t \o c : t \in Texts(n - 1), c \in LexChars}

LexInit ==
    /\ mode = "lexing"
    /\ \E src \in Texts(MaxText) :
           lexed = [lexer |-> dm_lexer_init(src, Len(src)), token |-> UninitToken,
                    err |-> DM_SUCCESS, from |-> NoText, tokens |-> <<>>]
    /\ typed = [line |-> <<>>, more |-> <<>>]
    /\ parsed = NotParsed
    /\ session = <<>> /\ run = 0 /\ ctx = NULL /\ stack = <<>> /\ ret = NULL
    /\ freed = {} /\ output = <<>> /\ results = <<>>
    /\ proc = NULL

\* the caller asks for the next token, as consume does, into the token it
\* already holds; lexed.from is where the lexer stood, lexed.tokens the
\* tokens returned so far
NextToken ==
    /\ mode = "lexing"
    /\ lexed.err = DM_SUCCESS /\ lexed.token.type # DM_TOKEN_EOF
    /\ LET Returned(r) ==
               [lexer |-> r.lexer, token |-> r.token, err |-> r.err,
                from |-> lexed.lexer.position,
                tokens |-> IF r.err = DM_SUCCESS THEN Append(lexed.tokens, r.token)
                           ELSE lexed.tokens]
       IN  lexed' = Returned(dm_lexer_next_token(lexed.lexer, lexed.token))
    /\ UNCHANGED <<mode, typed, parsed, session, run, ctx, stack, ret, freed, output,
                   results, proc>>

LexSpec == LexInit /\ [][NextToken]_vars

\* the offset of the first byte at or after offset i that is not white space
RECURSIVE FirstByte(_, _)
FirstByte(src, i) ==
    IF i < Len(src) /\ isspace(CharAt(src, i)) THEN FirstByte(src, i + 1) ELSE i

\* the offset of the quote that closes a string literal whose text goes on
\* at offset i: the first `quote` that no backslash escapes, NoText if the
\* input ends before one
RECURSIVE ClosingQuote(_, _, _)
ClosingQuote(src, i, quote) ==
    IF i >= Len(src) THEN NoText
    ELSE IF CharAt(src, i) = quote THEN i
    ELSE IF CharAt(src, i) = "\\" THEN ClosingQuote(src, i + 2, quote)
    ELSE ClosingQuote(src, i + 1, quote)

IsStringStart(src, i) == CharAt(src, i) \in {"\"", "'"}

\* C18: asked for a token where a string literal begins whose closing quote
\* is missing before the end of input, with either quote character and
\* whatever follows it (a trailing backslash, an escaped quote), the lexer
\* returns DM_ERROR_SYNTAX_ERROR and hands out no string token for it; every
\* string token it does return ends at the closing quote of its literal.
C18_UnterminatedString ==
    /\ lexed.from # NoText
       => LET Check(src, start) ==
                  (IsStringStart(src, start)
                   /\ ClosingQuote(src, start + 1, CharAt(src, start)) = NoText)
                  => /\ lexed.err = DM_ERROR_SYNTAX_ERROR
                     /\ ~(lexed.token.type = DM_TOKEN_STRING /\ lexed.token.text = start)
          IN  Check(lexed.lexer.source, FirstByte(lexed.lexer.source, lexed.from))
    /\ \A k \in 1..Len(lexed.tokens) :
           LET Closed(src, t) ==
                   t.type = DM_TOKEN_STRING
                   => /\ IsStringStart(src, t.text)
                      /\ ClosingQuote(src, t.text + 1, CharAt(src, t.text))
                             = t.text + t.length - 1
           IN  Closed(lexed.lexer.source, lexed.tokens[k])

\* a string that ends in a backslash after a complete string: the first is
\* returned as a token, the second is an error
C18_Witness ==
    /\ lexed.lexer.source = "''\"\\"
    /\ Len(lexed.tokens) = 1 /\ lexed.tokens[1].type = DM_TOKEN_STRING
    /\ lexed.err = DM_ERROR_SYNTAX_ERROR
    /\ lexed.from = 2

\* ---------------------------------------------------------------------------
\* The symbol table on its own: dm_scope_define applied to a scope and its
\* parent, with names that share a bucket

\* hash_string sends "i" and "add" to one bucket and "x" to another
ScopeNames == {"i", "add", "x"}

ScopeValues == {BooleanValue(TRUE), StringValue("v")}

ScopeInit ==
    /\ mode = "scopes"
    /\ LET inner == dm_scope_create(dm_context_create, dm_context_create.global_scope)
       IN  ctx = [inner.ctx EXCEPT !.current_scope = inner.scope]
    /\ typed = [line |-> <<>>, more |-> <<>>]
    /\ parsed = NotParsed
    /\ session = <<>> /\ run = 0 /\ stack = <<>> /\ ret = NULL
    /\ freed = {} /\ output = <<>> /\ results = <<>>
    /\ proc = NULL /\ lexed = NULL

\* one call of dm_scope_define; ret.ghost keeps the arguments and the context
\* the call found
Define ==
    /\ mode = "scopes"
    /\ \E scope \in DOMAIN ctx.scopes \cup {NoScope}, name \in ScopeNames,
          value \in ScopeValues :
           LET Called(err) ==
                   [err |-> err, result |-> NULL, from |-> "dm_scope_define",
                    ghost |-> [scope |-> scope, name |-> name, value |-> value,
                               before |-> ctx]]
           IN  IF scope = NoScope
               THEN ret' = Called(DM_ERROR_INVALID_ARGUMENT) /\ ctx' = ctx
               ELSE /\ ret' = Called(DM_SUCCESS)
                    /\ ctx' = dm_scope_define(ctx, scope, name, value)
    /\ UNCHANGED <<mode, typed, parsed, session, run, stack, freed, output, results,
                   proc, lexed>>

ScopeSpec == ScopeInit /\ [][Define]_vars

\* the entries of a symbol table that bind `name`, and those that do not
Binding(symbols, name) == SelectSeq(Entries(symbols), LAMBDA e : e.name = name)
Others(symbols, name) == SelectSeq(Entries(symbols), LAMBDA e : e.name # name)

\* C21: dm_scope_define(scope, name, value) changes only the binding of name
\* in that scope: afterwards the scope holds a single entry for name, with
\* the value given; when name was bound there no entry is added, otherwise
\* exactly one is; the entries of the other names of the scope, and every
\* other scope, are as they were
C21_DefineFrame ==
    (mode = "scopes" /\ ret # NULL /\ ret.err = DM_SUCCESS)
    => LET call == ret.ghost
           before == call.before.scopes
           was == before[call.scope].symbols
           now == ctx.scopes[call.scope].symbols
       IN  /\ DOMAIN ctx.scopes = DOMAIN before
           /\ \A id \in DOMAIN before \ {call.scope} : ctx.scopes[id] = before[id]
           /\ ctx.scopes[call.scope].parent = before[call.scope].parent
           /\ Binding(now, call.name) = <<[name |-> call.name, value |-> call.value]>>
           /\ Len(Entries(now))
                  = Len(Entries(was)) + (IF Binding(was, call.name) = <<>> THEN 1 ELSE 0)
           /\ Others(now, call.name) = Others(was, call.name)

\* "add" is given a new value in the inner scope, where it was bound already
\* and shares its bucket with "i", while the outer scope binds "add" too
C21_Witness ==
    /\ mode = "scopes" /\ ret # NULL /\ ret.err = DM_SUCCESS
    /\ ret.ghost.name = "add" /\ ret.ghost.scope = ctx.current_scope
    /\ LET was == ret.ghost.before.scopes[ret.ghost.scope].symbols
       IN  /\ Len(was[hash_string("add", table_size)]) = 2
           /\ Binding(was, "add") # <<>>
           /\ Binding(was, "add")[1].value # ret.ghost.value
    /\ Binding(ctx.scopes[ctx.global_scope].symbols, "add") # <<>>
    /\ Binding(ctx.scopes[ctx.global_scope].symbols, "add")[1].value # ret.ghost.value

CallerScope(k) ==
    LET below == {j \in ScopeSetters : j < k}
    IN  IF below = {} THEN ctx.global_scope
        ELSE stack[CHOOSE j \in below : \A i \in below : i <= j].own_scope

\* the eval_function_call frames that have made their scope
Calls ==
    {k \in ScopeOwners : stack[k].fn = "eval_function_call"}

\* C23: the scope made for a call has the caller's current scope as its
\* parent, whatever scope the function was declared in; while the arguments
\* are evaluated the current scope is still the caller's; and a name looked
\* up in a function body that neither the activation nor a block inside it
\* binds resolves to the binding the caller's current scope sees.
C23_DynamicScope ==
    mode = "running"
    => \A k \in Calls :
           /\ ctx.scopes[stack[k].own_scope].parent = CallerScope(k)
           /\ stack[k].pc = "body" => stack[k].previous_scope = CallerScope(k)
           /\ (stack[k].pc = "argument" /\ \A j \in ScopeSetters : j < k)
              => ctx.current_scope = CallerScope(k)
           /\ (stack[k].pc = "body" /\ Top.fn = "eval_variable")
              => LET binds == BindingScope(ctx, ctx.current_scope, Top.node.name)
                 IN  \/ binds \in {stack[j].own_scope : j \in {i \in ScopeOwners : i >= k}}
                     \/ binds = BindingScope(ctx, CallerScope(k), Top.node.name)

\* f, declared in the global scope where v is 1, is called from a block that
\* binds v to 2: the body of f is about to read v, which the activation
\* does not bind, and finds the block's v
C23_Witness ==
    /\ mode = "running" /\ stack # <<>> /\ Top.fn = "eval_variable"
    /\ Top.node.name = "v"
    /\ \E k \in Calls :
           /\ stack[k].pc = "body"
           /\ CallerScope(k) # ctx.global_scope
           /\ Names(ctx.scopes[stack[k].own_scope].symbols) = {"a", "b"}
           /\ BindingScope(ctx, ctx.current_scope, "v") = CallerScope(k)
           /\ "v" \in Names(ctx.scopes[ctx.global_scope].symbols)
           /\ dm_scope_lookup(ctx, ctx.current_scope, "v").value = FloatValue(Int2Rat(2))
           /\ dm_scope_lookup(ctx, stack[k].own_scope, "b").value = FloatValue(Int2Rat(1))

\* the number of newlines among the n bytes of src from offset i, and the
\* number of bytes that follow the last of them
RECURSIVE Newlines(_, _, _)
Newlines(src, i, n) ==
    IF n = 0 THEN 0
    ELSE (IF CharAt(src, i) = "\n" THEN 1 ELSE 0) + Newlines(src, i + 1, n - 1)

RECURSIVE AfterLastNewline(_, _, _)
AfterLastNewline(src, i, n) ==
    IF n = 0 \/ CharAt(src, i + n - 1) = "\n" THEN 0
    ELSE 1 + AfterLastNewline(src, i, n - 1)

\* C26: when the lexer has returned a string token whose text holds k
\* newlines, its line counter is k more than at the start of the token, and
\* after a newline its column counts from 1 again; so every token returned
\* carries the number of the line it starts on.
C26_StringNewlines ==
    mode = "lexing"
    => /\ (lexed.err = DM_SUCCESS /\ lexed.token.type = DM_TOKEN_STRING)
          => LET Counted(src, t) ==
                     /\ lexed.lexer.line = t.line + Newlines(src, t.text, t.length)
                     /\ Newlines(src, t.text, t.length) > 0
                        => lexed.lexer.column
                               = 1 + AfterLastNewline(src, t.text, t.length)
             IN  Counted(lexed.lexer.source, lexed.token)
       /\ \A k \in 1..Len(lexed.tokens) :
              lexed.tokens[k].type # DM_TOKEN_EOF
              => lexed.tokens[k].line
                     = 1 + Newlines(lexed.lexer.source, 0, lexed.tokens[k].text)

\* the text at offset i opens a block comment that the input never closes
RECURSIVE CommentCloses(_, _)
CommentCloses(src, i) ==
    IF i + 1 >= Len(src) THEN FALSE
    ELSE IF CharAt(src, i) = "*" /\ CharAt(src, i + 1) = "/" THEN TRUE
    ELSE CommentCloses(src, i + 1)

UnterminatedComment(src, i) ==
    /\ CharAt(src, i) = "/" /\ CharAt(src, i + 1) = "*"
    /\ ~CommentCloses(src, i + 2)

\* C27: asked for a token where, after white space, a block comment opens
\* that has no closing */, the lexer skips every byte up to the end of the
\* input and returns the end-of-input token.
C27_UnterminatedComment ==
    (mode = "lexing" /\ lexed.from # NoText
     /\ UnterminatedComment(lexed.lexer.source,
                            FirstByte(lexed.lexer.source, lexed.from)))
    => /\ lexed.err = DM_SUCCESS
       /\ lexed.token.type = DM_TOKEN_EOF
       /\ lexed.lexer.position = lexed.lexer.source_len

\* C28: a plain assignment `x = e;` to a name that no scope on the chain
\* from the current scope binds returns DM_ERROR_UNDEFINED_VARIABLE with no
\* result, and leaves every scope as it was: no binding is created.
C28_AssignUndefined ==
    [][(/\ Running("eval_assignment") /\ Top.pc = "value"
        /\ ~Top.node.is_declaration
        /\ ret # NULL /\ ret.err = DM_SUCCESS
        /\ Top.node.name \notin VisibleNames(ctx, ctx.current_scope))
       => /\ mode' = "running"
          /\ ret' = Ret(DM_ERROR_UNDEFINED_VARIABLE, NULL, "eval_assignment", NULL)
          /\ ctx' = ReleaseResult(ctx, ret.result)]_vars

\* `q = 2;` inside the block of `let p = 1; { q = 2; }` has just failed: q is
\* bound nowhere, p still is
C28_Witness ==
    /\ mode = "running" /\ ret # NULL /\ ret.from = "eval_assignment"
    /\ ret.err = DM_ERROR_UNDEFINED_VARIABLE
    /\ ctx.current_scope # ctx.global_scope
    /\ VisibleNames(ctx, ctx.current_scope) = {"p"}
    /\ \A id \in DOMAIN ctx.scopes : "q" \notin Names(ctx.scopes[id].symbols)

\* the nodes of a tree, the node itself first
RECURSIVE Nodes(_)
NodesOf(nodes) ==
    LET RECURSIVE All(_)
        All(k) == IF k > Len(nodes) THEN <<>> ELSE Nodes(nodes[k]) \o All(k + 1)
    IN  All(1)

Nodes(node) ==
    <<node>> \o
    CASE node = NULL -> <<>>
      [] node.type \in {DM_NODE_PROGRAM, DM_NODE_BLOCK} -> NodesOf(node.statements)
      [] node.type = DM_NODE_ASSIGNMENT -> Nodes(node.value)
      [] node.type = DM_NODE_BINARY_OP -> Nodes(node.left) \o Nodes(node.right)
      [] node.type = DM_NODE_UNARY_OP -> Nodes(node.operand)
      [] node.type = DM_NODE_IF ->
             Nodes(node.condition) \o Nodes(node.then_branch) \o Nodes(node.else_branch)
      [] node.type = DM_NODE_WHILE -> Nodes(node.condition) \o Nodes(node.body)
      [] node.type = DM_NODE_CALL -> NodesOf(node.args)
      [] node.type = DM_NODE_FUNCTION -> Nodes(node.body)
      [] node.type = DM_NODE_RETURN -> Nodes(node.value)
      [] OTHER -> <<>>

\* the operator tokens of two bytes whose first byte is a prefix operator
PrefixLookalikes == {"!="}

\* C29: only a token that is exactly `-` or `!` is taken as a prefix
\* operator: a line that begins with a two-byte operator such as `!=` is a
\* syntax error, and a tree has no more Unary nodes than the line has `-`
\* and `!` tokens.
C29_PrefixOperators ==
    mode = "parsed"
    => /\ (Tokens # <<>> /\ Tokens[1] \in PrefixLookalikes)
          => parsed.err = DM_ERROR_SYNTAX_ERROR /\ parsed.result = NULL
       /\ parsed.result # NULL
          => Cardinality({k \in 1..Len(Nodes(parsed.result)) :
                             Nodes(parsed.result)[k].type = DM_NODE_UNARY_OP})
                 <= Cardinality({k \in 1..Len(Tokens) : Tokens[k] \in {"-", "!"}})

(***************************************************************************)
(* VfsSpec: the virtual file system of src/unnamed/part_006 612-860.  The  *)
(* context is initialised in some working directory, and then paths are    *)
(* mounted.  proc.heap holds the dm_vfs_t objects dm_malloc has handed     *)
(* out, each with its list of mount entries, the newest first.             *)
(***************************************************************************)
DM_TYPE_OBJECT == "DM_TYPE_OBJECT"

DM_VFS_KEY == "dm_vfs"

ObjectValue(object) == [type |-> DM_TYPE_OBJECT, object |-> object]

\* the directories the process can be started in, and the paths mounted
Directories == {"/home", "/srv", "/tmp"}

MountPoints == {"/", "/data"}

\* dm_malloc(ctx, sizeof(dm_vfs_t)): the least address not in use
vfs_malloc(heap, object) ==
    LET at == CHOOSE id \in 1..(Cardinality(DOMAIN heap) + 1) :
                  /\ id \notin DOMAIN heap
                  /\ \A other \in 1..(id - 1) : other \in DOMAIN heap
    IN  [at |-> at, heap |-> (at :> object) @@ heap]

\* get_vfs: NoScope stands for the NULL it returns
get_vfs(c) ==
    LET found == dm_scope_lookup(c, c.global_scope, DM_VFS_KEY)
    IN  IF found.err # DM_SUCCESS \/ found.value.type # DM_TYPE_OBJECT THEN NoScope
        ELSE found.value.object

\* the position in the list of the entry named mount_point, 0 if there is none
RECURSIVE FindMount(_, _, _)
FindMount(mounts, mount_point, i) ==
    IF i > Len(mounts) THEN 0
    ELSE IF mounts[i].name = mount_point THEN i
    ELSE FindMount(mounts, mount_point, i + 1)

\* dm_vfs_mount(ctx, mount_point, real_path): the context and the heap
\* afterwards; it returns DM_SUCCESS whenever dm_malloc does not fail
dm_vfs_mount(c, heap, mount_point, real_path) ==
    LET new_entry == [name |-> mount_point, real_path |-> real_path]
        First(made) ==
            [ctx |-> dm_scope_define(c, c.global_scope, DM_VFS_KEY, ObjectValue(made.at)),
             heap |-> made.heap]
        Known(vfs, at) ==
            [ctx |-> c,
             heap |-> IF at # 0
                      THEN [heap EXCEPT ![vfs].mounts[at].real_path = real_path]
                      ELSE [heap EXCEPT ![vfs].mounts = <<new_entry>> \o @]]
    IN  IF get_vfs(c) = NoScope
        THEN First(vfs_malloc(heap, [mounts |-> <<new_entry>>, working_dir |-> real_path,
                                     path_separator |-> "/"]))
        ELSE Known(get_vfs(c), FindMount(heap[get_vfs(c)].mounts, mount_point, 1))

\* dm_vfs_init(ctx) once getcwd has returned cwd
dm_vfs_init(c, heap, cwd) ==
    LET Store(vfs, mounted) ==
            [ctx |-> dm_scope_define(mounted.ctx, mounted.ctx.global_scope, DM_VFS_KEY,
                                     ObjectValue(vfs)),
             heap |-> mounted.heap]
        Mount(made) ==
            Store(made.at, dm_vfs_mount(c, made.heap, "/", cwd))
    IN  Mount(vfs_malloc(heap, [mounts |-> <<>>, working_dir |-> cwd,
                                path_separator |-> "/"]))

VfsInit ==
    /\ mode = "vfs"
    /\ ctx = dm_context_create
    /\ \E cwd \in Directories :
           proc = [cwd |-> cwd, heap |-> [id \in {} |-> NULL], last |-> "dm_context_create",
                   err |-> DM_SUCCESS]
    /\ typed = [line |-> <<>>, more |-> <<>>]
    /\ parsed = NotParsed
    /\ session = <<>> /\ run = 0 /\ stack = <<>> /\ ret = NULL
    /\ freed = {} /\ output = <<>> /\ results = <<>>
    /\ lexed = NULL

VfsUnchanged ==
    UNCHANGED <<typed, parsed, session, run, stack, ret, freed, output, results, lexed>>

\* dm_fs_init, which dm_init calls once the context is made, calls
\* dm_vfs_init; getcwd fails or returns the working directory
VfsInitialize ==
    /\ mode = "vfs" /\ proc.last = "dm_context_create"
    /\ \E getcwd \in {"NULL", "cwd"} :
           IF getcwd = "NULL"
           THEN /\ proc' = [proc EXCEPT !.last = "dm_vfs_init", !.err = DM_ERROR_FILE_IO]
                /\ UNCHANGED <<mode, ctx>>
           ELSE LET done == dm_vfs_init(ctx, proc.heap, proc.cwd)
                IN  /\ ctx' = done.ctx
                    /\ proc' = [proc EXCEPT !.heap = done.heap, !.last = "dm_vfs_init",
                                            !.err = DM_SUCCESS]
                    /\ mode' = mode
    /\ VfsUnchanged

\* a later dm_vfs_mount; get_vfs copies the value it finds into a dm_value_t
\* it left uninitialised
VfsMount ==
    /\ mode = "vfs" /\ proc.last # "dm_context_create" /\ proc.err = DM_SUCCESS
    /\ \E mount_point \in MountPoints, real_path \in Directories,
          garbage \in UninitializedValue :
           IF garbage = "stray pointer"
           THEN mode' = "crashed" /\ UNCHANGED <<ctx, proc>>
           ELSE LET done == dm_vfs_mount(ctx, proc.heap, mount_point, real_path)
                IN  /\ ctx' = done.ctx
                    /\ proc' = [proc EXCEPT !.heap = done.heap, !.last = "dm_vfs_mount"]
                    /\ mode' = mode
    /\ VfsUnchanged

VfsNext == VfsInitialize \/ VfsMount

VfsSpec == VfsInit /\ [][VfsNext]_vars

\* C30: when dm_vfs_init has returned DM_SUCCESS, the global scope binds the
\* VFS key to a VFS object that has a mount entry for "/" whose real path is
\* the working directory of the process, and that object is the only VFS
\* object allocated and not freed.
C30_VfsRegistered ==
    (mode = "vfs" /\ proc.last = "dm_vfs_init" /\ proc.err = DM_SUCCESS)
    => /\ get_vfs(ctx) # NoScope
       /\ get_vfs(ctx) \in DOMAIN proc.heap
       /\ FindMount(proc.heap[get_vfs(ctx)].mounts, "/", 1) # 0
       /\ \A i \in 1..Len(proc.heap[get_vfs(ctx)].mounts) :
              proc.heap[get_vfs(ctx)].mounts[i].name = "/"
              => proc.heap[get_vfs(ctx)].mounts[i].real_path = proc.cwd
       /\ Cardinality(DOMAIN proc.heap) = 1

(***************************************************************************)
(* Result nodes on the error path.                                         *)
(***************************************************************************)
\* C25: whenever the evaluation of an input returns an error, no result
\* node allocated during it remains allocated: the intermediate results,
\* the node a Block or While stores in *result on its error path included,
\* have all been freed.
C25_ErrorFreesResults ==
    (mode = "running" /\ stack = <<>> /\ ret # NULL /\ ret.err # DM_SUCCESS)
        => ctx.result_nodes = 0

====
